---- MODULE Spec2Model ----
(***************************************************************************)
(* A model of the networking core of zero-node: the Length-Type-Data       *)
(* frame codec (datapack.ltd), the pooled staging buffers it packs into,   *)
(* the kcp session with its receive, dispatch and send goroutines, the     *)
(* close of the session and of the kcp server, the router, the key         *)
(* exchange of two sessions, and the allocation of session ids.            *)
(*                                                                         *)
(* Bytes are the numbers 0..255 and a byte string is a sequence of them.   *)
(* The primitives the repository imports (crypto/rc4, HMAC-MD5, the        *)
(* compressor) are modelled by what the codec relies on: a stream cipher   *)
(* that xors a key- and position-dependent keystream, a keyed 16-byte      *)
(* digest, a compressor that frames its input behind a header.             *)
(***************************************************************************)
EXTENDS Integers, Sequences, FiniteSets, TLC

(***************************************************************************)
(* Bounds of the model                                                     *)
(***************************************************************************)
\* longest payload a packed message carries
MaxPayload == 1
\* number of messages packed in one behaviour of the codec
MaxMsgs == 2
\* number of distinct staging buffers the pool can hand out
MaxBuf == 2
\* the transport hands the receiver at most this many bytes at once, or all
\* the bytes in flight
MaxChunk == 3
\* the frames the peer sends to a session
MaxIn == 2
\* config.RecvBufferSize: bytes one read returns at most; the ring holds twice that
RecvBufferSize == 10
\* config.RecvQueueSize and config.SendQueueSize
RecvQueueSize == 2
SendQueueSize == 2
\* the calls of Send that user code makes
MaxUserSend == 1
\* the calls of session.Close and server.Close that user code makes
MaxCloseCalls == 2
\* the frames a peer sends that may be unrouted or may not unpack
MaxInbound == 3
\* the key exchanges a client begins, and the frames sent a second time
MaxExchanges == 2
MaxResends == 1
\* the ids a server gives out
MaxIds == 4

(***************************************************************************)
(* Program constants                                                       *)
(***************************************************************************)
FlagCompress == 1
FlagEncrypt == 16
FlagChecksum == 256
FlagZero == 4096
ChecksumLength == 16

(***************************************************************************)
(* Bytes and bit fields                                                    *)
(***************************************************************************)
\* a uint16 written low byte first
U16LittleEndian(x) == << x % 256, (x \div 256) % 256 >>

\* binary.Write(buffer, binary.BigEndian, uint16): the value is truncated to
\* 16 bits and written high byte first
U16(x) == << (x \div 256) % 256, x % 256 >>

\* zerobytes.ToUint16: big endian
ToUint16(p) == p[1] * 256 + p[2]

\* flag & bit != 0, for a single-bit mask
HasFlag(flag, bit) == (flag \div bit) % 2 = 1

\* a flag that is left as it is
SetFlagNever(flag, bit) == flag

\* flag |= bit
SetFlag(flag, bit) == IF HasFlag(flag, bit) THEN flag ELSE flag + bit

\* flag &^ bit, for a single-bit mask
ClearFlag(flag, bit) == IF HasFlag(flag, bit) THEN flag - bit ELSE flag

RECURSIVE XorBits(_, _, _)
XorBits(a, b, n) ==
    IF n = 0 THEN 0
    ELSE (((a % 2) + (b % 2)) % 2) + (2 * XorBits(a \div 2, b \div 2, n - 1))

\* a ^ b on bytes
Xor8(a, b) == XorBits(a, b, 8)

\* the sum of weight * byte over the bytes of s from position from on; the
\* weight of a byte is 1 (plain) or its position (weighted)
RECURSIVE SumFrom(_, _, _)
SumFrom(s, from, weighted) ==
    IF from > Len(s) THEN 0
    ELSE ((IF weighted THEN from * s[from] ELSE s[from]) + SumFrom(s, from + 1, weighted)) % 256

SumSeq(s) == SumFrom(s, 1, FALSE)

(***************************************************************************)
(* Imported primitives                                                     *)
(***************************************************************************)
\* crypto/rc4 keystream byte number pos (1-based) of a cipher keyed with key
KeyStream(key, pos) == ((SumSeq(key) * 7) + (pos * 37) + 11) % 256

\* zerorc4.New(key): two ciphers, one per direction, each at the start of
\* its keystream; present = FALSE models a nil Crypto
NoCrypto == [present |-> FALSE, key |-> << >>, en |-> 0, de |-> 0]
NewCrypto(key) == [present |-> TRUE, key |-> key, en |-> 0, de |-> 0]

\* rc4.Encrypt: XORKeyStream on cipherEn into a fresh slice; the cipher advances
Encrypt(crypto, in) ==
    [out |-> [i \in 1..Len(in) |-> Xor8(in[i], KeyStream(crypto.key, crypto.en + i))],
     crypto |-> [crypto EXCEPT !.en = @ + Len(in)]]

\* rc4.Decrypt: XORKeyStream on cipherDe into a fresh slice; the cipher advances
Decrypt(crypto, in) ==
    [out |-> [i \in 1..Len(in) |-> Xor8(in[i], KeyStream(crypto.key, crypto.de + i))],
     crypto |-> [crypto EXCEPT !.de = @ + Len(in)]]

\* zerocompress.Compress: the output is a new byte string that frames the
\* input behind a one-byte header
CompressHeader == << 120 >>
Compress(in) == CompressHeader \o in

\* zerocompress.Uncompress: fails on input that lacks the header
Uncompress(in) ==
    IF Len(in) >= 1 /\ SubSeq(in, 1, 1) = CompressHeader
    THEN [ok |-> TRUE, out |-> SubSeq(in, 2, Len(in))]
    ELSE [ok |-> FALSE, out |-> << >>]

\* zerocrypto.HmacMd5ByteToByte(data, key): a 16-byte digest of the bytes of
\* the data, their positions, the length of the data, and the key
HmacMd5ByteToByte(data, key) ==
    LET plain == SumFrom(data, 1, FALSE)
        weighted == SumFrom(data, 1, TRUE)
        keyed == SumFrom(key, 1, FALSE) + (5 * Len(key))
    IN  [j \in 1..ChecksumLength |->
            ((j * plain) + weighted + (3 * Len(data)) + (j * keyed)) % 256]

(***************************************************************************)
(* datapack.ltd                                                            *)
(***************************************************************************)
\* a head that counted Code, Module and Action as well
ltdHeadLenWithBody(whetherChecksum) ==
    IF whetherChecksum THEN 10 + ChecksumLength ELSE 10

\* ltdHeadLen: unsafe.Sizeof(ltdMessageHead{}) is 2 + 2 + 2 + 16
ltdHeadLen(whetherChecksum) ==
    IF whetherChecksum THEN 6 + ChecksumLength ELSE 6

\* NewLTD: a codec configuration
NewLTD(whetherCompress, compressThreshold, compress, whetherCrypto, whetherChecksum) ==
    [headLen |-> ltdHeadLen(whetherChecksum),
     whetherCompress |-> whetherCompress,
     compressThreshold |-> compressThreshold,
     compress |-> compress,
     whetherCrypto |-> whetherCrypto,
     whetherChecksum |-> whetherChecksum]

\* NewLTDMessage
NewLTDMessage(flag, sn, code, module, action, payload) ==
    [flag |-> flag, sn |-> sn, code |-> code, module |-> module,
     action |-> action, payload |-> payload]

emptyChecksum == [i \in 1..ChecksumLength |-> 0]

\* the test of packBody that decides whether the body is encrypted
shouldEncryptZero(l, crypto, flag) == l.whetherCrypto /\ crypto.present

shouldEncrypt(l, crypto, flag) ==
    l.whetherCrypto /\ crypto.present /\ ~HasFlag(flag, FlagZero)

\* ltd.packBody.  staged says that the body returned is still buffer.Bytes()
\* of the pooled staging buffer, which the deferred Put has given back;
\* the compressor and the cipher return new slices.
packBody(l, message, crypto) ==
    LET raw == U16(message.code) \o << message.module, message.action >> \o message.payload
        doCompress == l.whetherCompress /\ l.compress /\ Len(raw) >= l.compressThreshold
        body1 == IF doCompress THEN Compress(raw) ELSE raw
        flag1 == IF doCompress THEN SetFlag(message.flag, FlagCompress) ELSE message.flag
        doEncrypt == shouldEncrypt(l, crypto, flag1)
        enc == Encrypt(crypto, body1)
    IN  [body |-> IF doEncrypt THEN enc.out ELSE body1,
         flag |-> IF doEncrypt THEN SetFlag(flag1, FlagEncrypt) ELSE flag1,
         crypto |-> IF doEncrypt THEN enc.crypto ELSE crypto,
         staged |-> ~doCompress /\ ~doEncrypt]

\* the conversion uint16(n) of an int
Uint16Of(n) == n % 65536

\* ltd.Pack.  sameBuffer says that bufferPool.Get handed Pack the buffer
\* that packBody has just Put: the header is then written over the first
\* bytes of a staged body before the body is copied behind it.
Pack(l, message, crypto, checksumKey, sameBuffer) ==
    LET pb == packBody(l, message, crypto)
        flag == IF l.whetherChecksum THEN SetFlag(pb.flag, FlagChecksum) ELSE pb.flag
        bodyLen == Uint16Of(Len(pb.body))
        head == U16(bodyLen) \o U16(flag) \o U16(message.sn)
                \o (IF l.whetherChecksum THEN emptyChecksum ELSE << >>)
        body == IF pb.staged /\ sameBuffer
                THEN [i \in 1..Len(pb.body) |->
                        IF i <= Len(head) THEN head[i] ELSE pb.body[i]]
                ELSE pb.body
        allBytes == head \o body
        calcChecksum == HmacMd5ByteToByte(allBytes, checksumKey)
        checksumStartIndex == l.headLen - ChecksumLength
    IN  [bytes |-> IF l.whetherChecksum /\ ~HasFlag(flag, FlagZero)
                   THEN [i \in 1..Len(allBytes) |->
                            IF i > checksumStartIndex /\ i <= checksumStartIndex + ChecksumLength
                            THEN calcChecksum[i - checksumStartIndex]
                            ELSE allBytes[i]]
                   ELSE allBytes,
         crypto |-> pb.crypto]

\* verifyChecksum, were it to compare only the lengths of the two digests
verifyChecksumLengthOnly(l, checksum, allBytes, checksumKey) ==
    Len(HmacMd5ByteToByte(allBytes, checksumKey)) = Len(checksum)

\* ltd.verifyChecksum
verifyChecksum(l, checksum, allBytes, checksumKey) ==
    LET checksumStartIndex == l.headLen - ChecksumLength
        zeroed == [i \in 1..Len(allBytes) |->
                      IF i > checksumStartIndex /\ i <= checksumStartIndex + ChecksumLength
                      THEN 0 ELSE allBytes[i]]
    IN  HmacMd5ByteToByte(zeroed, checksumKey) = checksum

\* one turn of the loop of ltd.Unpack on a ring that holds a whole frame:
\* the frame is read off the ring and decoded
UnpackFrame(l, allBytes, bodyLen, crypto, checksumKey) ==
    LET flag == ToUint16(SubSeq(allBytes, 3, 4))
        sn == ToUint16(SubSeq(allBytes, 5, 6))
        checksum == SubSeq(allBytes, 7, 6 + ChecksumLength)
        index == IF l.whetherChecksum THEN 6 + ChecksumLength ELSE 6
        wire == SubSeq(allBytes, index + 1, Len(allBytes))
        doDecrypt == HasFlag(flag, FlagEncrypt) /\ crypto.present /\ ~HasFlag(flag, FlagZero)
        dec == Decrypt(crypto, wire)
        body1 == IF doDecrypt THEN dec.out ELSE wire
        crypto1 == IF doDecrypt THEN dec.crypto ELSE crypto
        doUncompress == HasFlag(flag, FlagCompress) /\ l.compress
        unc == Uncompress(body1)
        bodyBytes == IF doUncompress THEN unc.out ELSE body1
    IN  IF l.whetherChecksum /\ ~HasFlag(flag, FlagChecksum)
        THEN [err |-> "NoChecksumFlag", crypto |-> crypto]
        ELSE IF l.whetherChecksum /\ ~HasFlag(flag, FlagZero)
                /\ ~verifyChecksum(l, checksum, allBytes, checksumKey)
        THEN [err |-> "VerifyChecksum", crypto |-> crypto]
        ELSE IF doUncompress /\ ~unc.ok
        THEN [err |-> "DecompressPayload", crypto |-> crypto1]
        ELSE IF Len(bodyBytes) < 4
        \* bodyBytes[2:3], bodyBytes[3:4] or bodyBytes[4:] out of range
        THEN [err |-> "panic", crypto |-> crypto1]
        ELSE [err |-> "",
              crypto |-> crypto1,
              message |-> NewLTDMessage(flag, sn, 0, bodyBytes[3], bodyBytes[4],
                                        IF bodyLen - 4 > 0
                                        THEN SubSeq(bodyBytes, 5, Len(bodyBytes))
                                        ELSE << >>)]

\* UnpackLoop, were it to read the header off the ring before it knows that
\* the body has arrived
RECURSIVE UnpackLoopEager(_, _, _, _, _)
UnpackLoopEager(l, buffer, crypto, checksumKey, messages) ==
    LET bufferLen == Len(buffer)
        bodyLen == ToUint16(SubSeq(buffer, 1, 2))
    IN  IF bufferLen < l.headLen
        THEN [messages |-> messages, buffer |-> buffer, crypto |-> crypto, err |-> ""]
        ELSE IF bufferLen < l.headLen + bodyLen
        THEN [messages |-> messages, buffer |-> SubSeq(buffer, l.headLen + 1, bufferLen),
              crypto |-> crypto, err |-> ""]
        ELSE LET allBytes == SubSeq(buffer, 1, l.headLen + bodyLen)
                 rest == SubSeq(buffer, l.headLen + bodyLen + 1, bufferLen)
                 one == UnpackFrame(l, allBytes, bodyLen, crypto, checksumKey)
             IN  IF one.err # ""
                 THEN [messages |-> << >>, buffer |-> rest, crypto |-> one.crypto,
                       err |-> one.err]
                 ELSE UnpackLoopEager(l, rest, one.crypto, checksumKey,
                                      Append(messages, one.message))

\* ltd.Unpack: the loop, on the bytes buffered in the ring.  On an error
\* the messages decoded so far are dropped (nil is returned) and the
\* frames read stay consumed.
RECURSIVE UnpackLoop(_, _, _, _, _)
UnpackLoop(l, buffer, crypto, checksumKey, messages) ==
    LET bufferLen == Len(buffer)
        bodyLen == ToUint16(SubSeq(buffer, 1, 2))
    IN  IF bufferLen < l.headLen
        THEN [messages |-> messages, buffer |-> buffer, crypto |-> crypto, err |-> ""]
        ELSE IF bufferLen < l.headLen + bodyLen
        THEN [messages |-> messages, buffer |-> buffer, crypto |-> crypto, err |-> ""]
        ELSE LET allBytes == SubSeq(buffer, 1, l.headLen + bodyLen)
                 rest == SubSeq(buffer, l.headLen + bodyLen + 1, bufferLen)
                 one == UnpackFrame(l, allBytes, bodyLen, crypto, checksumKey)
             IN  IF one.err # ""
                 THEN [messages |-> << >>, buffer |-> rest, crypto |-> one.crypto,
                       err |-> one.err]
                 ELSE UnpackLoop(l, rest, one.crypto, checksumKey,
                                 Append(messages, one.message))

\* an Unpack that leaves every frame in the ring
UnpackKeeps(l, buffer, crypto, checksumKey) ==
    [messages |-> << >>, buffer |-> buffer, crypto |-> crypto, err |-> ""]

Unpack(l, buffer, crypto, checksumKey) ==
    UnpackLoop(l, buffer, crypto, checksumKey, << >>)

(***************************************************************************)
(* State                                                                   *)
(***************************************************************************)
VARIABLES
    \* ---- the codec between a packing and an unpacking endpoint
    ltdCfg,       \* the ltd both endpoints were built with
    bufferPool,   \* datapack.bufferPool: the staging buffers that are idle
    txCrypto,     \* the Crypto handed to Pack
    rxCrypto,     \* the Crypto handed to Unpack
    hmacKey,      \* the checksumKey handed to both
    wire,         \* bytes packed and not yet written into the ring
    ringBuf,      \* the bytes buffered in the ring
    packed,       \* every message packed so far, with its frame
    unpacked,     \* the lists returned by the Unpack calls, concatenated
    unpackErr,    \* the error of the Unpack call that failed, "" if none did
    tamper,       \* the bit flipped in the last frame: byte (0: none) and bit
    \* ---- one kcp session.  It packs and unpacks with ltdCfg, txCrypto (its
    \* crypto) and hmacKey (its checksumKey), reads from wire and buffers
    \* in ringBuf.
    pc,           \* where each goroutine stands
    peerFrames,   \* the frames the peer has sent, in order
    recvBatch,    \* recvLoop: the messages Unpack returned, not yet queued
    recvQueue,    \* session.recvQueue
    sendQueue,    \* session.sendQueue
    chClosed,     \* closeCh, sendQueue and recvQueue have been closed
    isStopRecv,   \* session.isStopRecv
    isStopSend,   \* session.isStopSend
    closeOnce,    \* session.closeOnce has been taken
    sendWait,     \* session.sendWait: the writes under way
    sessions,     \* sessionManager.sessions: the ids it holds
    serverOnce,   \* server.closeOnce has been taken
    fired,        \* how often each callback ran and each resource was closed
    closePanics,  \* the panics raised inside session.Close
    handled,      \* the messages handed to the handler or to handleZero
    sendLog,      \* the messages Send and SendCallback have enqueued
    written,      \* the messages whose frames conn.Write has written
    acceptedAtClose, \* the length of sendLog when Close began
    writeFailed,  \* a conn.Write has failed
    dispCur,      \* dispatchLoop: the response being sent
    sendCur,      \* sendLoop: the message being written
    userSends,    \* the calls of Send made by user code
    appCalls,     \* the calls of session.Close and server.Close made by user code
    inServerClose \* user code is inside server.Close

\* a key exchange between two sessions, the initiator's and the responder's
VARIABLES
    sessCrypto,      \* session.crypto of each side
    sessChecksumKey, \* session.checksumKey of each side
    sessParamters,   \* session.paramters of each side: the exchange under way
    sessOpen,        \* the side's session has not closed
    zeroInbox,       \* the FlagZero messages on their way to each side's dispatchLoop
    derivedKeys,     \* every key derived so far, with what it was derived from
    exchangesBegun,  \* the calls of ExchangeKeyRequest
    resends          \* the frames a side has sent a second time

\* session ids: the counters, and the goroutines that accept connections
VARIABLES
    genSessionID,    \* the counter of each server
    issued,          \* the ids each server has given to newSession, in order
    acceptPc,        \* where each accepting goroutine is
    acceptID,        \* the id each accepting goroutine holds
    registered       \* sessionManager.sessions of each server

codecVars == << ltdCfg, bufferPool, txCrypto, rxCrypto, hmacKey, wire, ringBuf,
                packed, unpacked, unpackErr, tamper >>

sessVars == << pc, peerFrames, recvBatch, recvQueue, sendQueue, chClosed,
              isStopRecv, isStopSend, closeOnce, sendWait, sessions,
              serverOnce, fired, closePanics, handled, sendLog, written,
              acceptedAtClose, writeFailed, dispCur, sendCur, userSends,
              appCalls, inServerClose >>

hsVars == << sessCrypto, sessChecksumKey, sessParamters, sessOpen, zeroInbox,
            derivedKeys, exchangesBegun, resends >>

idVars == << genSessionID, issued, acceptPc, acceptID, registered >>

\* The routing table of one router (part_012): the handlers bound to router
\* keys, the fallback handler, and the last call made on the router with
\* what it returned; bindings records, for each (module, action) pair that
\* AddRouter accepted, the handler it was given.
VARIABLES routes, handlerFunc, routerCall, bindings

routerVars == << routes, handlerFunc, routerCall, bindings >>

\* The configuration of one server (part_005 Config) and the last option
\* applied to it.
VARIABLES config, optionCall

configVars == << config, optionCall >>

\* A server admitting connections (kcp.go listen, part_011 wsHandler) while
\* sessions close and the server is closed: the kind of server, its two
\* flags, whether its listener is closed, the ids held by the session
\* manager, the sessions whose Run has started and that have not closed,
\* the session id counter, where each accepting goroutine stands, where the
\* goroutine of Close stands, and the number of connections that arrived.
VARIABLES peerKind, isClosed, isCloseConn, lnClosed, managed, running,
          sessionIDs, acceptor, serverClose, arrivals

admitVars == << peerKind, isClosed, isCloseConn, lnClosed, managed, running,
                sessionIDs, acceptor, serverClose, arrivals >>

\* A session manager whose sessions are closed by Close of the manager and
\* by themselves: which implementation it is (the map under a RWMutex of
\* session-manager.go or the sync.Map of part_014), the goroutine holding
\* the mutex, the ids in the manager, the ids that were in it when Close was
\* called, the ids Close has gone over, the sessions whose closeOnce is
\* taken, the sessions whose Close has returned, and where each goroutine
\* stands.
VARIABLES managerKind, lock, held, heldAtClose, ranged, onceTaken,
          closedSessions, closer

managerVars == << managerKind, lock, held, heldAtClose, ranged, onceTaken,
                  closedSessions, closer >>

\* Sessions of one server writing through the one bufferPool of the codec:
\* the idle buffers of the pool, the bytes in the array of each buffer,
\* where each session stands in write with the frame Pack returned to it
\* and the buffer that slice lives in, what each session wrote, and the
\* number of writes begun.
VARIABLES sharedPool, bufferBytes, writer, wrote, writes

poolVars == << sharedPool, bufferBytes, writer, wrote, writes >>

\* The messagePool of the codec: the idle message objects, the fields of
\* every object made so far, and the last call made on a message.
VARIABLES messagePool, messageObjects, messageCall

messageVars == << messagePool, messageObjects, messageCall >>

\* One call of Pack on a message drawn at the start, with the codec and the
\* Crypto it is made with, its result and what Unpack makes of the frame;
\* and one call of Pack looked at by the lengths alone.
VARIABLES frameCodec, frameCrypto, frameMessage, frameOut, lengthCall

frameVars == << frameCodec, frameCrypto, frameMessage, frameOut, lengthCall >>

\* The keys of the sessions of one process: the idle buffers of
\* ecdh.bufferPool, the bytes in the array of each buffer, the checksumKey
\* of each session (the buffer its slice lives in, its length and the key
\* that was derived for the session), and the key exchanges handled.
VARIABLES keyPool, keyBytes, checksumKeys, keyExchanges

keyVars == << keyPool, keyBytes, checksumKeys, keyExchanges >>

\* The message objects of one process: how often each lies in messagePool,
\* the objects made so far, the recvQueue and the sendQueue of each session,
\* the Release calls each loop has deferred, the loops that run, and the
\* messages made so far.
VARIABLES poolCount, made, recvQueueOf, sendQueueOf, deferred, loopRuns,
          messagesMade

ownerVars == << poolCount, made, recvQueueOf, sendQueueOf, deferred, loopRuns,
               messagesMade >>

\* The variables of the specifications of single operations.
restVars == << frameVars, keyVars, ownerVars >>

\* The variables of the components of a server.
serverVars == << routerVars, configVars, admitVars, managerVars, poolVars,
                messageVars >>

\* The variables of the components specified after the session ids.
lateVars == << serverVars, restVars >>

vars == << codecVars, sessVars, hsVars, idVars, lateVars >>

(***************************************************************************)
(* One kcp session of a server: recvLoop, dispatchLoop, sendLoop, the      *)
(* callers of Send and Close, and server.Close                             *)
(***************************************************************************)
\* control actions of FlagZero messages
FlagZeroExchangeKeyRequest == 1
FlagZeroExchangeKeyResponse == 2
FlagZeroHeartBeat == 3

\* the id the session manager gave the session
SessionID == 1

\* the goroutines: the three loops of the session, user code that calls
\* Send, and user code that calls session.Close and server.Close
Loops == {"recv", "dispatch", "send"}
Selectors == {"dispatch", "send"}
Procs == Loops \cup {"user", "app"}

\* the datapack of the session: DefaultDatapck without checksum or crypto
SessionLtd == NewLTD(FALSE, 5, TRUE, FALSE, FALSE)

\* inbound messages: the k-th frame of the peer is a data message or a heartbeat
DataMessage(k) == NewLTDMessage(0, k, 0, 1, 2, << >>)
HeartBeat(k) == NewLTDMessage(FlagZero, k, 0, 0, FlagZeroHeartBeat, << >>)

\* the frame the peer sends for a message
PeerFrame(message) == Pack(SessionLtd, message, NoCrypto, << >>, FALSE).bytes

PeerStreams ==
    { [k \in 1..MaxIn |-> PeerFrame(IF kinds[k] = "data" THEN DataMessage(k) ELSE HeartBeat(k))] :
        kinds \in [1..MaxIn -> {"data", "heartbeat"}] }

RECURSIVE Flatten(_)
Flatten(frames) == IF frames = << >> THEN << >> ELSE Head(frames) \o Flatten(Tail(frames))

\* the response a handler returns to a request, and the i-th message user
\* code sends
Response(message) == NewLTDMessage(0, message.sn + 16, 0, message.module, message.action, << >>)
UserMessage(i) == NewLTDMessage(0, 32 + i, 0, 1, 2, << >>)

\* what a registered handler returns: nothing, a response or an error
HandlerOutcomes == {"none", "response", "error"}

\* RouterID: uint16(module<<4 + action), the shift and the sum in uint8
RouterID(module, action) == (((module * 16) % 256) + action) % 256

\* the routes the application registered with AddRouter, and whether it set
\* a fallback with SetHandlerFunc
Routes == { RouterID(1, 2) }
HasHandlerFunc == FALSE

\* router.Handler: the handler of the route, else the fallback, else
\* ErrHandlerNotFound
Handler(message) ==
    IF RouterID(message.module, message.action) \in Routes \/ HasHandlerFunc
    THEN HandlerOutcomes
    ELSE {"notfound"}

\* every result dispatchLoop can get for a message
DispatchOutcomes == HandlerOutcomes \cup {"notfound"}

\* session.handleZero, for the control messages a server session is sent
\* without a key exchange under way: an empty request is refused by
\* ExchangeKeyResponse, a response finds no ecdhPrivateKey, and any other
\* action is not supported
handleZero(message) ==
    IF ~HasFlag(message.flag, FlagZero) THEN "none"
    ELSE IF message.action = FlagZeroExchangeKeyRequest /\ message.payload # << >> THEN "response"
    ELSE "error"

Outcomes(message) ==
    IF HasFlag(message.flag, FlagZero) THEN { handleZero(message) } ELSE Handler(message)

\* sync.Once.Do: whether this call runs the function
OnceDoAlways(done) == TRUE

OnceDo(done) == ~done

\* a buffered channel: send and receive
ChanSendFront(q, e) == << e >> \o q

ChanSend(q, e) == Append(q, e)

ChanRecvLast(q) == [elem |-> q[Len(q)], rest |-> SubSeq(q, 1, Len(q) - 1)]

ChanRecv(q) == [elem |-> Head(q), rest |-> Tail(q)]

NoMessage == NewLTDMessage(0, 0, 0, 0, 0, << >>)

NothingFired == [closeCallback |-> 0, onConnClose |-> 0, connClose |-> 0,
                 chanClose |-> 0, lnClose |-> 0, onServerClose |-> 0]

Fire(f, names) == [k \in DOMAIN f |-> IF k \in names THEN f[k] + 1 ELSE f[k]]

Goto(p, label) == pc' = [pc EXCEPT ![p] = label]

\* where a goroutine continues when its call of session.Close returns: a
\* loop has ended, user code goes on, server.Close goes on
AfterClose(p) ==
    IF p \in Loops THEN "exited" ELSE IF inServerClose THEN "srv_finish" ELSE "idle"

\* the session variables of a specification that runs no session
SessionOff ==
    /\ pc = [p \in Procs |-> "off"]
    /\ peerFrames = << >>
    /\ recvBatch = << >>
    /\ recvQueue = << >>
    /\ sendQueue = << >>
    /\ chClosed = FALSE
    /\ isStopRecv = FALSE
    /\ isStopSend = FALSE
    /\ closeOnce = FALSE
    /\ sendWait = 0
    /\ sessions = { }
    /\ serverOnce = FALSE
    /\ fired = NothingFired
    /\ closePanics = 0
    /\ handled = << >>
    /\ sendLog = << >>
    /\ written = << >>
    /\ acceptedAtClose = 0
    /\ writeFailed = FALSE
    /\ dispCur = NoMessage
    /\ sendCur = NoMessage
    /\ userSends = 0
    /\ appCalls = 0
    /\ inServerClose = FALSE

\* the variables of the key exchange and of the session ids in a
\* specification that runs neither
HandshakeOff ==
    /\ sessCrypto = << >>
    /\ sessChecksumKey = << >>
    /\ sessParamters = << >>
    /\ sessOpen = << >>
    /\ zeroInbox = << >>
    /\ derivedKeys = << >>
    /\ exchangesBegun = 0
    /\ resends = 0

IdsOff ==
    /\ genSessionID = << >>
    /\ issued = << >>
    /\ acceptPc = << >>
    /\ acceptID = << >>
    /\ registered = << >>

\* the call record of a router nobody has called yet
NoCall == [n |-> 0, op |-> "none"]

\* the router variables of a specification that registers no route
RouterOff ==
    /\ routes = << >>
    /\ handlerFunc = "nil"
    /\ routerCall = NoCall
    /\ bindings = << >>

\* DefaultConfig: the session settings of a server before any option
DefaultConfig ==
    [RecvBufferSize |-> 8192, RecvDeadline |-> 0, RecvQueueSize |-> 128,
     SendBufferSize |-> 8192, SendDeadline |-> 0, SendQueueSize |-> 128]

\* the configuration variables of a specification that applies no option
ConfigOff ==
    /\ config = DefaultConfig
    /\ optionCall = NoCall

\* the admission variables of a specification that accepts no connection
AdmitOff ==
    /\ peerKind = "none"
    /\ isClosed = FALSE
    /\ isCloseConn = FALSE
    /\ lnClosed = FALSE
    /\ managed = {}
    /\ running = {}
    /\ sessionIDs = 0
    /\ acceptor = << >>
    /\ serverClose = "off"
    /\ arrivals = 0

\* the manager variables of a specification that closes no manager
ManagerOff ==
    /\ managerKind = "none"
    /\ lock = {}
    /\ held = {}
    /\ heldAtClose = {}
    /\ ranged = {}
    /\ onceTaken = {}
    /\ closedSessions = {}
    /\ closer = << >>

\* the pool variables of a specification in which no session writes
PoolOff ==
    /\ sharedPool = {}
    /\ bufferBytes = << >>
    /\ writer = << >>
    /\ wrote = << >>
    /\ writes = 0

\* the message variables of a specification that makes no message
MessagesOff ==
    /\ messagePool = {}
    /\ messageObjects = << >>
    /\ messageCall = NoCall

ServerOff ==
    /\ RouterOff
    /\ ConfigOff
    /\ AdmitOff
    /\ ManagerOff
    /\ PoolOff
    /\ MessagesOff

NoFrame == [n |-> 0]

FrameOff ==
    /\ frameCodec = 0
    /\ frameCrypto = 0
    /\ frameMessage = 0
    /\ frameOut = NoFrame
    /\ lengthCall = NoFrame

KeysOff ==
    /\ keyPool = {}
    /\ keyBytes = << >>
    /\ checksumKeys = << >>
    /\ keyExchanges = 0

OwnerOff ==
    /\ poolCount = << >>
    /\ made = {}
    /\ recvQueueOf = << >>
    /\ sendQueueOf = << >>
    /\ deferred = << >>
    /\ loopRuns = << >>
    /\ messagesMade = 0

RestOff ==
    /\ FrameOff
    /\ KeysOff
    /\ OwnerOff

LateOff ==
    /\ ServerOff
    /\ RestOff

\* the codec variables of a specification that packs and unpacks nothing
CodecOff ==
    /\ ltdCfg = SessionLtd
    /\ bufferPool = { }
    /\ txCrypto = NoCrypto
    /\ rxCrypto = NoCrypto
    /\ hmacKey = << >>
    /\ wire = << >>
    /\ ringBuf = << >>
    /\ packed = << >>
    /\ unpacked = << >>
    /\ unpackErr = ""
    /\ tamper = [at |-> 0, bit |-> 0]

\* newSession, sessionManager.Add and session.Run: the three loops run, the
\* peer's frames are on their way
Init ==
    /\ ltdCfg = SessionLtd
    /\ bufferPool = { }
    /\ txCrypto = NoCrypto
    /\ rxCrypto = NoCrypto
    /\ hmacKey = << >>
    /\ peerFrames \in PeerStreams
    /\ wire = Flatten(peerFrames)
    /\ ringBuf = << >>
    /\ packed = << >>
    /\ unpacked = << >>
    /\ unpackErr = ""
    /\ tamper = [at |-> 0, bit |-> 0]
    /\ pc = [p \in Procs |-> IF p = "recv" THEN "read"
                             ELSE IF p \in Selectors THEN "select" ELSE "idle"]
    /\ recvBatch = << >>
    /\ recvQueue = << >>
    /\ sendQueue = << >>
    /\ chClosed = FALSE
    /\ isStopRecv = FALSE
    /\ isStopSend = FALSE
    /\ closeOnce = FALSE
    /\ sendWait = 0
    /\ sessions = { SessionID }
    /\ serverOnce = FALSE
    /\ fired = NothingFired
    /\ closePanics = 0
    /\ handled = << >>
    /\ sendLog = << >>
    /\ written = << >>
    /\ acceptedAtClose = 0
    /\ writeFailed = FALSE
    /\ dispCur = NoMessage
    /\ sendCur = NoMessage
    /\ userSends = 0
    /\ appCalls = 0
    /\ inServerClose = FALSE
    /\ HandshakeOff
    /\ IdsOff
    /\ LateOff

\* recvLoop after Unpack: an error breaks the loop (the deferred Close runs),
\* else the messages are enqueued, else the next read
AfterUnpackLogOnly(err, messages) == IF messages = << >> THEN "read" ELSE "enqueue"

AfterUnpack(err, messages) ==
    IF err # "" THEN "close" ELSE IF messages = << >> THEN "read" ELSE "enqueue"

\* recvLoop: io.ReadAtLeast returns n bytes, at least a header; the loop
\* stops if the session no longer receives, else writes them into the ring
\* and unpacks
RecvRead(n) ==
    /\ pc["recv"] = "read"
    /\ fired.connClose = 0
    /\ n >= ltdCfg.headLen
    /\ n <= Len(wire)
    /\ n <= RecvBufferSize
    /\ wire' = SubSeq(wire, n + 1, Len(wire))
    /\ IF isStopRecv \/ Len(ringBuf) + n > 2 * RecvBufferSize
       THEN /\ Goto("recv", "close")
            /\ UNCHANGED << ringBuf, txCrypto, recvBatch >>
       ELSE LET r == Unpack(ltdCfg, ringBuf \o SubSeq(wire, 1, n), txCrypto, hmacKey)
            IN  /\ ringBuf' = r.buffer
                /\ txCrypto' = r.crypto
                /\ recvBatch' = r.messages
                /\ Goto("recv", AfterUnpack(r.err, r.messages))
    /\ UNCHANGED << ltdCfg, bufferPool, rxCrypto, hmacKey, packed, unpacked,
                 unpackErr, tamper, peerFrames, recvQueue, sendQueue, chClosed,
                 isStopRecv, isStopSend, closeOnce, sendWait, sessions,
                 serverOnce, fired, closePanics, handled, sendLog, written,
                 acceptedAtClose, writeFailed, dispCur, sendCur, userSends,
                 appCalls, inServerClose >>
    /\ UNCHANGED << hsVars, idVars, lateVars >>

\* recvLoop: the read fails (the peer closed, the conn was closed, a deadline)
RecvReadError ==
    /\ pc["recv"] = "read"
    /\ Goto("recv", "close")
    /\ UNCHANGED << ltdCfg, bufferPool, txCrypto, rxCrypto, hmacKey, wire, ringBuf,
                 packed, unpacked, unpackErr, tamper, peerFrames, recvBatch,
                 recvQueue, sendQueue, chClosed, isStopRecv, isStopSend,
                 closeOnce, sendWait, sessions, serverOnce, fired, closePanics,
                 handled, sendLog, written, acceptedAtClose, writeFailed, dispCur,
                 sendCur, userSends, appCalls, inServerClose >>
    /\ UNCHANGED << hsVars, idVars, lateVars >>

\* recvLoop: s.recvQueue <- message, which panics on a closed channel (the
\* loop recovers and closes)
RecvEnqueue ==
    /\ pc["recv"] = "enqueue"
    /\ IF chClosed
       THEN /\ Goto("recv", "close")
            /\ UNCHANGED << recvQueue, recvBatch >>
       ELSE /\ Len(recvQueue) < RecvQueueSize
            /\ recvQueue' = ChanSend(recvQueue, Head(recvBatch))
            /\ recvBatch' = Tail(recvBatch)
            /\ Goto("recv", IF Tail(recvBatch) = << >> THEN "read" ELSE "enqueue")
    /\ UNCHANGED << ltdCfg, bufferPool, txCrypto, rxCrypto, hmacKey, wire, ringBuf,
                 packed, unpacked, unpackErr, tamper, peerFrames, sendQueue,
                 chClosed, isStopRecv, isStopSend, closeOnce, sendWait, sessions,
                 serverOnce, fired, closePanics, handled, sendLog, written,
                 acceptedAtClose, writeFailed, dispCur, sendCur, userSends,
                 appCalls, inServerClose >>
    /\ UNCHANGED << hsVars, idVars, lateVars >>

\* dispatchLoop: a message is taken from recvQueue and handed to the handler
\* or to handleZero; an error ends the loop, a response goes to Send, which
\* first looks at isStopSend
DispatchRecv(outcome) ==
    /\ pc["dispatch"] = "select"
    /\ recvQueue # << >>
    /\ LET r == ChanRecv(recvQueue)
       IN  /\ outcome \in Outcomes(r.elem)
           /\ recvQueue' = r.rest
           /\ handled' = Append(handled, r.elem)
           /\ IF outcome = "response" /\ ~isStopSend
              THEN dispCur' = Response(r.elem) /\ Goto("dispatch", "enqueue")
              ELSE UNCHANGED dispCur /\ Goto("dispatch", IF outcome = "none" THEN "select" ELSE "close")
    /\ UNCHANGED << ltdCfg, bufferPool, txCrypto, rxCrypto, hmacKey, wire, ringBuf,
                 packed, unpacked, unpackErr, tamper, peerFrames, recvBatch,
                 sendQueue, chClosed, isStopRecv, isStopSend, closeOnce, sendWait,
                 sessions, serverOnce, fired, closePanics, sendLog, written,
                 acceptedAtClose, writeFailed, sendCur, userSends, appCalls,
                 inServerClose >>
    /\ UNCHANGED << hsVars, idVars, lateVars >>

\* SendCallback, second half: the select that enqueues or times out.  A
\* send on the closed queue panics.
Enqueue(p, message, onPanic, onDone, onTimeout) ==
    IF chClosed
    THEN Goto(p, onPanic) /\ UNCHANGED << sendQueue, sendLog >>
    ELSE IF Len(sendQueue) < SendQueueSize
    THEN /\ sendQueue' = ChanSend(sendQueue, message)
         /\ sendLog' = Append(sendLog, message)
         /\ Goto(p, onDone)
    ELSE Goto(p, onTimeout) /\ UNCHANGED << sendQueue, sendLog >>

\* dispatchLoop: the response is enqueued; a timeout or a panic ends the loop
DispatchEnqueue ==
    /\ pc["dispatch"] = "enqueue"
    /\ Enqueue("dispatch", dispCur, "close", "select", "close")
    /\ UNCHANGED << ltdCfg, bufferPool, txCrypto, rxCrypto, hmacKey, wire, ringBuf,
                 packed, unpacked, unpackErr, tamper, peerFrames, recvBatch,
                 recvQueue, chClosed, isStopRecv, isStopSend, closeOnce, sendWait,
                 sessions, serverOnce, fired, closePanics, handled, written,
                 acceptedAtClose, writeFailed, dispCur, sendCur, userSends,
                 appCalls, inServerClose >>
    /\ UNCHANGED << hsVars, idVars, lateVars >>

\* sendLoop: an element is taken from sendQueue and write begins:
\* sendWait.Add(1)
SendDequeue ==
    /\ pc["send"] = "select"
    /\ sendQueue # << >>
    /\ LET r == ChanRecv(sendQueue)
       IN  /\ sendQueue' = r.rest
           /\ sendCur' = r.elem
    /\ sendWait' = sendWait + 1
    /\ Goto("send", "write")
    /\ UNCHANGED << ltdCfg, bufferPool, txCrypto, rxCrypto, hmacKey, wire, ringBuf,
                 packed, unpacked, unpackErr, tamper, peerFrames, recvBatch,
                 recvQueue, chClosed, isStopRecv, isStopSend, closeOnce, sessions,
                 serverOnce, fired, closePanics, handled, sendLog, written,
                 acceptedAtClose, writeFailed, dispCur, userSends, appCalls,
                 inServerClose >>
    /\ UNCHANGED << hsVars, idVars, lateVars >>

\* sendLoop: write packs the message and writes the frame; sendWait.Done().
\* The write fails on a closed conn, and may fail on an open one.
SendWrite(ok) ==
    /\ pc["send"] = "write"
    /\ sendWait' = sendWait - 1
    /\ txCrypto' = packBody(ltdCfg, sendCur, txCrypto).crypto
    /\ IF ok /\ fired.connClose = 0
       THEN /\ written' = Append(written, sendCur)
            /\ Goto("send", "select")
            /\ UNCHANGED writeFailed
       ELSE /\ writeFailed' = TRUE
            /\ Goto("send", "close")
            /\ UNCHANGED written
    /\ UNCHANGED << ltdCfg, bufferPool, rxCrypto, hmacKey, wire, ringBuf, packed,
                 unpacked, unpackErr, tamper, peerFrames, recvBatch, recvQueue,
                 sendQueue, chClosed, isStopRecv, isStopSend, closeOnce, sessions,
                 serverOnce, fired, closePanics, handled, sendLog,
                 acceptedAtClose, dispCur, sendCur, userSends, appCalls,
                 inServerClose >>
    /\ UNCHANGED << hsVars, idVars, lateVars >>

\* dispatchLoop and sendLoop: the select finds closeCh closed (sendLoop also
\* finds sendQueue closed)
SelectClosed(q) ==
    /\ q \in Selectors
    /\ pc[q] = "select"
    /\ chClosed
    /\ Goto(q, "close")
    /\ UNCHANGED << ltdCfg, bufferPool, txCrypto, rxCrypto, hmacKey, wire, ringBuf,
                 packed, unpacked, unpackErr, tamper, peerFrames, recvBatch,
                 recvQueue, sendQueue, chClosed, isStopRecv, isStopSend,
                 closeOnce, sendWait, sessions, serverOnce, fired, closePanics,
                 handled, sendLog, written, acceptedAtClose, writeFailed, dispCur,
                 sendCur, userSends, appCalls, inServerClose >>
    /\ UNCHANGED << hsVars, idVars, lateVars >>

\* user code (or SendAll) calls Send: the look at isStopSend
UserSendCheck ==
    /\ pc["user"] = "idle"
    /\ userSends < MaxUserSend
    /\ userSends' = userSends + 1
    /\ Goto("user", IF isStopSend THEN "idle" ELSE "enqueue")
    /\ UNCHANGED << ltdCfg, bufferPool, txCrypto, rxCrypto, hmacKey, wire, ringBuf,
                 packed, unpacked, unpackErr, tamper, peerFrames, recvBatch,
                 recvQueue, sendQueue, chClosed, isStopRecv, isStopSend,
                 closeOnce, sendWait, sessions, serverOnce, fired, closePanics,
                 handled, sendLog, written, acceptedAtClose, writeFailed, dispCur,
                 sendCur, appCalls, inServerClose >>
    /\ UNCHANGED << hsVars, idVars, lateVars >>

\* user code: the select of SendCallback; a panic goes to the caller
UserEnqueue ==
    /\ pc["user"] = "enqueue"
    /\ Enqueue("user", UserMessage(userSends), "panicked", "idle", "idle")
    /\ UNCHANGED << ltdCfg, bufferPool, txCrypto, rxCrypto, hmacKey, wire, ringBuf,
                 packed, unpacked, unpackErr, tamper, peerFrames, recvBatch,
                 recvQueue, chClosed, isStopRecv, isStopSend, closeOnce, sendWait,
                 sessions, serverOnce, fired, closePanics, handled, written,
                 acceptedAtClose, writeFailed, dispCur, sendCur, userSends,
                 appCalls, inServerClose >>
    /\ UNCHANGED << hsVars, idVars, lateVars >>

\* user code calls session.Close
AppClose ==
    /\ pc["app"] = "idle"
    /\ appCalls < MaxCloseCalls
    /\ appCalls' = appCalls + 1
    /\ Goto("app", "close")
    /\ UNCHANGED << ltdCfg, bufferPool, txCrypto, rxCrypto, hmacKey, wire, ringBuf,
                 packed, unpacked, unpackErr, tamper, peerFrames, recvBatch,
                 recvQueue, sendQueue, chClosed, isStopRecv, isStopSend,
                 closeOnce, sendWait, sessions, serverOnce, fired, closePanics,
                 handled, sendLog, written, acceptedAtClose, writeFailed, dispCur,
                 sendCur, userSends, inServerClose >>
    /\ UNCHANGED << hsVars, idVars, lateVars >>

\* a Del that finds the session and leaves it in the manager
DelKeeps(ids, id) == [sessions |-> ids, found |-> id \in ids]

\* sessionManager.Del: LoadAndDelete, and whether a session was found, whose
\* Close is then called
Del(ids, id) == [sessions |-> ids \ { id }, found |-> id \in ids]

\* whether the Close that Del calls from inside closeCallback runs the body
\* of Close once more: it is a call of Close like any other, made when
\* closeOnce is taken
ReentersUngated(found, once) == found

Reenters(found, once) == found /\ OnceDo(once)

\* the callbacks of steps 3 and 4 of Close
CloseCallbacks == {"closeCallback", "onConnClose"}

\* session.Close up to the wait: closeOnce, the two flags, closeCallback
\* (server.closeSession: sessionManager.Del and its call of Close) and
\* OnConnClose
CloseBegin(p) ==
    /\ pc[p] = "close"
    /\ IF OnceDo(closeOnce)
       THEN /\ closeOnce' = TRUE
            /\ isStopRecv' = TRUE
            /\ isStopSend' = TRUE
            /\ LET d == Del(sessions, SessionID)
               IN  /\ sessions' = d.sessions
                   /\ fired' = IF Reenters(d.found, TRUE)
                               THEN Fire(Fire(fired, CloseCallbacks), CloseCallbacks)
                               ELSE Fire(fired, CloseCallbacks)
            /\ acceptedAtClose' = (IF closeOnce THEN acceptedAtClose ELSE Len(sendLog))
            /\ Goto(p, "c_wait")
       ELSE /\ Goto(p, AfterClose(p))
            /\ UNCHANGED << closeOnce, isStopRecv, isStopSend, fired, sessions, acceptedAtClose >>
    /\ UNCHANGED << ltdCfg, bufferPool, txCrypto, rxCrypto, hmacKey, wire, ringBuf,
                 packed, unpacked, unpackErr, tamper, peerFrames, recvBatch,
                 recvQueue, sendQueue, chClosed, sendWait, serverOnce,
                 closePanics, handled, sendLog, written, writeFailed, dispCur,
                 sendCur, userSends, appCalls, inServerClose >>
    /\ UNCHANGED << hsVars, idVars, lateVars >>

\* a Close that goes on to the signal without sendWait.Wait()
CloseWaitNoWait(p) ==
    /\ pc[p] = "c_wait"
    /\ Goto(p, "c_signal")
    /\ UNCHANGED << ltdCfg, bufferPool, txCrypto, rxCrypto, hmacKey, wire, ringBuf,
                 packed, unpacked, unpackErr, tamper, peerFrames, recvBatch,
                 recvQueue, sendQueue, chClosed, isStopRecv, isStopSend,
                 closeOnce, sendWait, sessions, serverOnce, fired, closePanics,
                 handled, sendLog, written, acceptedAtClose, writeFailed, dispCur,
                 sendCur, userSends, appCalls, inServerClose >>
    /\ UNCHANGED << hsVars, idVars, lateVars >>

\* session.Close: s.sendWait.Wait()
CloseWait(p) ==
    /\ pc[p] = "c_wait"
    /\ sendWait = 0
    /\ Goto(p, "c_signal")
    /\ UNCHANGED << ltdCfg, bufferPool, txCrypto, rxCrypto, hmacKey, wire, ringBuf,
                 packed, unpacked, unpackErr, tamper, peerFrames, recvBatch,
                 recvQueue, sendQueue, chClosed, isStopRecv, isStopSend,
                 closeOnce, sendWait, sessions, serverOnce, fired, closePanics,
                 handled, sendLog, written, acceptedAtClose, writeFailed, dispCur,
                 sendCur, userSends, appCalls, inServerClose >>
    /\ UNCHANGED << hsVars, idVars, lateVars >>

\* session.Close: s.closeCh <- true, received by the select of dispatchLoop
\* or of sendLoop, which returns; on a closed closeCh the send panics and
\* Close recovers
CloseSignal(p) ==
    /\ pc[p] = "c_signal"
    /\ IF chClosed
       THEN /\ closePanics' = closePanics + 1
            /\ Goto(p, AfterClose(p))
       ELSE /\ \E q \in Selectors :
                  /\ pc[q] = "select"
                  /\ pc' = [pc EXCEPT ![p] = "c_finish", ![q] = "close"]
            /\ UNCHANGED closePanics
    /\ UNCHANGED << ltdCfg, bufferPool, txCrypto, rxCrypto, hmacKey, wire, ringBuf,
                 packed, unpacked, unpackErr, tamper, peerFrames, recvBatch,
                 recvQueue, sendQueue, chClosed, isStopRecv, isStopSend,
                 closeOnce, sendWait, sessions, serverOnce, fired, handled,
                 sendLog, written, acceptedAtClose, writeFailed, dispCur, sendCur,
                 userSends, appCalls, inServerClose >>
    /\ UNCHANGED << hsVars, idVars, lateVars >>

\* session.Close: conn.Close(), then the three channels are closed; closing
\* a closed channel panics and Close recovers
CloseFinish(p) ==
    /\ pc[p] = "c_finish"
    /\ IF chClosed
       THEN /\ fired' = Fire(fired, {"connClose"})
            /\ closePanics' = closePanics + 1
            /\ UNCHANGED chClosed
       ELSE /\ fired' = Fire(fired, {"connClose", "chanClose"})
            /\ chClosed' = TRUE
            /\ UNCHANGED closePanics
    /\ Goto(p, AfterClose(p))
    /\ UNCHANGED << ltdCfg, bufferPool, txCrypto, rxCrypto, hmacKey, wire, ringBuf,
                 packed, unpacked, unpackErr, tamper, peerFrames, recvBatch,
                 recvQueue, sendQueue, isStopRecv, isStopSend, closeOnce,
                 sendWait, sessions, serverOnce, handled, sendLog, written,
                 acceptedAtClose, writeFailed, dispCur, sendCur, userSends,
                 appCalls, inServerClose >>
    /\ UNCHANGED << hsVars, idVars, lateVars >>

\* user code calls server.Close: closeOnce, then the goroutine stops
\* listening
SrvClose ==
    /\ pc["app"] = "idle"
    /\ appCalls < MaxCloseCalls
    /\ appCalls' = appCalls + 1
    /\ IF OnceDo(serverOnce)
       THEN /\ serverOnce' = TRUE
            /\ fired' = Fire(fired, {"lnClose"})
            /\ inServerClose' = TRUE
            /\ Goto("app", "mgr")
       ELSE UNCHANGED << serverOnce, fired, inServerClose, pc >>
    /\ UNCHANGED << ltdCfg, bufferPool, txCrypto, rxCrypto, hmacKey, wire, ringBuf,
                 packed, unpacked, unpackErr, tamper, peerFrames, recvBatch,
                 recvQueue, sendQueue, chClosed, isStopRecv, isStopSend,
                 closeOnce, sendWait, sessions, closePanics, handled, sendLog,
                 written, acceptedAtClose, writeFailed, dispCur, sendCur,
                 userSends >>
    /\ UNCHANGED << hsVars, idVars, lateVars >>

\* server.Close: sessionManager.Close calls Close of every session it holds
SrvManagerClose ==
    /\ pc["app"] = "mgr"
    /\ Goto("app", IF SessionID \in sessions THEN "close" ELSE "srv_finish")
    /\ UNCHANGED << ltdCfg, bufferPool, txCrypto, rxCrypto, hmacKey, wire, ringBuf,
                 packed, unpacked, unpackErr, tamper, peerFrames, recvBatch,
                 recvQueue, sendQueue, chClosed, isStopRecv, isStopSend,
                 closeOnce, sendWait, sessions, serverOnce, fired, closePanics,
                 handled, sendLog, written, acceptedAtClose, writeFailed, dispCur,
                 sendCur, userSends, appCalls, inServerClose >>
    /\ UNCHANGED << hsVars, idVars, lateVars >>

\* server.Close: sessionManager.Close empties the map, OnServerClose runs
SrvFinish ==
    /\ pc["app"] = "srv_finish"
    /\ sessions' = { }
    /\ fired' = Fire(fired, {"onServerClose"})
    /\ inServerClose' = FALSE
    /\ Goto("app", "idle")
    /\ UNCHANGED << ltdCfg, bufferPool, txCrypto, rxCrypto, hmacKey, wire, ringBuf,
                 packed, unpacked, unpackErr, tamper, peerFrames, recvBatch,
                 recvQueue, sendQueue, chClosed, isStopRecv, isStopSend,
                 closeOnce, sendWait, serverOnce, closePanics, handled, sendLog,
                 written, acceptedAtClose, writeFailed, dispCur, sendCur,
                 userSends, appCalls >>
    /\ UNCHANGED << hsVars, idVars, lateVars >>

Next ==
    \/ \E n \in 1..RecvBufferSize : RecvRead(n)
    \/ RecvReadError
    \/ RecvEnqueue
    \/ \E outcome \in HandlerOutcomes : DispatchRecv(outcome)
    \/ DispatchEnqueue
    \/ SendDequeue
    \/ \E ok \in BOOLEAN : SendWrite(ok)
    \/ \E q \in Selectors : SelectClosed(q)
    \/ UserSendCheck
    \/ UserEnqueue
    \/ AppClose
    \/ \E p \in Procs : CloseBegin(p)
    \/ \E p \in Procs : CloseWait(p)
    \/ \E p \in Procs : CloseSignal(p)
    \/ \E p \in Procs : CloseFinish(p)
    \/ SrvClose
    \/ SrvManagerClose
    \/ SrvFinish

Spec == Init /\ [][Next]_vars

(***************************************************************************)
(* The same session with a peer that also sends messages no route serves   *)
(* and frames that do not unpack; no user code calls Send or Close         *)
(***************************************************************************)
\* a data message of a module no handler was registered for
UnroutedMessage(k) == NewLTDMessage(0, k, 0, 2, 2, << >>)

\* a frame whose flag says the body is compressed while the body is not the
\* output of the compressor: Unpack fails with ErrDecompressPayload
CorruptFrame(k) == PeerFrame(NewLTDMessage(FlagCompress, k, 0, 1, 2, << >>))

InboundKinds == {"data", "unrouted", "corrupt"}

InboundFrame(kind, k) ==
    IF kind = "data" THEN PeerFrame(DataMessage(k))
    ELSE IF kind = "unrouted" THEN PeerFrame(UnroutedMessage(k))
    ELSE CorruptFrame(k)

InboundStreams ==
    { [k \in 1..MaxInbound |-> InboundFrame(kinds[k], k)] :
        kinds \in [1..MaxInbound -> InboundKinds] }

InitInbound ==
    /\ ltdCfg = SessionLtd
    /\ bufferPool = { }
    /\ txCrypto = NoCrypto
    /\ rxCrypto = NoCrypto
    /\ hmacKey = << >>
    /\ peerFrames \in InboundStreams
    /\ wire = Flatten(peerFrames)
    /\ ringBuf = << >>
    /\ packed = << >>
    /\ unpacked = << >>
    /\ unpackErr = ""
    /\ tamper = [at |-> 0, bit |-> 0]
    /\ pc = [p \in Procs |-> IF p = "recv" THEN "read"
                             ELSE IF p \in Selectors THEN "select" ELSE "off"]
    /\ recvBatch = << >>
    /\ recvQueue = << >>
    /\ sendQueue = << >>
    /\ chClosed = FALSE
    /\ isStopRecv = FALSE
    /\ isStopSend = FALSE
    /\ closeOnce = FALSE
    /\ sendWait = 0
    /\ sessions = { SessionID }
    /\ serverOnce = FALSE
    /\ fired = NothingFired
    /\ closePanics = 0
    /\ handled = << >>
    /\ sendLog = << >>
    /\ written = << >>
    /\ acceptedAtClose = 0
    /\ writeFailed = FALSE
    /\ dispCur = NoMessage
    /\ sendCur = NoMessage
    /\ userSends = 0
    /\ appCalls = 0
    /\ inServerClose = FALSE
    /\ HandshakeOff
    /\ IdsOff
    /\ LateOff

NextInbound ==
    \/ \E n \in 1..RecvBufferSize : RecvRead(n)
    \/ RecvReadError
    \/ RecvEnqueue
    \/ \E outcome \in DispatchOutcomes : DispatchRecv(outcome)
    \/ DispatchEnqueue
    \/ SendDequeue
    \/ \E ok \in BOOLEAN : SendWrite(ok)
    \/ \E q \in Selectors : SelectClosed(q)
    \/ \E p \in Loops : CloseBegin(p)
    \/ \E p \in Loops : CloseWait(p)
    \/ \E p \in Loops : CloseSignal(p)
    \/ \E p \in Loops : CloseFinish(p)

SpecInbound == InitInbound /\ [][NextInbound]_vars

(***************************************************************************)
(* The codec between two endpoints                                         *)
(***************************************************************************)
\* the key both endpoints hold after a key exchange
SessionKey == << 11, 22, 33 >>

\* the configurations checked: compression of bodies of 5 bytes and more,
\* encryption and checksums each on or off
Codecs == { NewLTD(c, 5, TRUE, e, k) : c \in BOOLEAN, e \in BOOLEAN, k \in BOOLEAN }

\* the payloads packed: the prefixes of "hij..."
PayloadOf(n) == [i \in 1..n |-> 103 + i]

\* the messages packed; the k-th message packed carries sn 256 + k.  Data
\* messages carry an error code or none, control messages (FlagZero) none.
MessagesFor(k) ==
    { NewLTDMessage(0, 256 + k, code, 1, 2, PayloadOf(n)) :
        code \in {0, 258}, n \in 0..MaxPayload }
    \cup
    { NewLTDMessage(FlagZero, 256 + k, 0, 1, 2, PayloadOf(n)) : n \in 0..MaxPayload }

\* sync.Pool.Get: an idle buffer, or a buffer made by New
GetChoices(pool) ==
    pool \cup (IF \E b \in 1..MaxBuf : b \notin pool
               THEN { CHOOSE b \in 1..MaxBuf : b \notin pool /\ \A c \in 1..MaxBuf : c \notin pool => b <= c }
               ELSE { })

\* s with bit number bit of its byte number at flipped
FlipBit(s, at, bit) ==
    [s EXCEPT ![at] = Xor8(@, 2 ^ bit)]

CodecInit ==
    /\ ltdCfg \in Codecs
    /\ bufferPool = { }
    /\ \E installed \in BOOLEAN :
          /\ txCrypto = (IF installed THEN NewCrypto(SessionKey) ELSE NoCrypto)
          /\ rxCrypto = txCrypto
          /\ hmacKey = (IF installed THEN SessionKey ELSE << >>)
    /\ wire = << >>
    /\ ringBuf = << >>
    /\ packed = << >>
    /\ unpacked = << >>
    /\ unpackErr = ""
    /\ tamper = [at |-> 0, bit |-> 0]
    /\ SessionOff
    /\ HandshakeOff
    /\ IdsOff
    /\ LateOff

\* the sender packs a message and writes the frame to the transport:
\* packBody and Pack each take a staging buffer and give it back
CodecPack(message, b1, b2) ==
    /\ Len(packed) < MaxMsgs
    /\ tamper.at = 0
    /\ unpackErr = ""
    /\ b1 \in GetChoices(bufferPool)
    /\ b2 \in GetChoices(bufferPool \cup {b1})
    /\ LET r == Pack(ltdCfg, message, txCrypto, hmacKey, b2 = b1)
       IN  /\ wire' = wire \o r.bytes
           /\ txCrypto' = r.crypto
           /\ packed' = Append(packed, [message |-> message, frame |-> r.bytes,
                                       clobbered |-> (b2 = b1 /\ packBody(ltdCfg, message, txCrypto).staged)])
    /\ bufferPool' = bufferPool \cup {b1, b2}
    /\ UNCHANGED << ltdCfg, rxCrypto, hmacKey, ringBuf, unpacked, unpackErr, tamper >>
    /\ UNCHANGED << sessVars, hsVars, idVars, lateVars >>

\* the receiver writes the next n bytes of the transport into the ring and
\* calls Unpack
WriteAndUnpack(n, bytes) ==
    LET r == Unpack(ltdCfg, ringBuf \o SubSeq(bytes, 1, n), rxCrypto, hmacKey)
    IN  /\ wire' = SubSeq(bytes, n + 1, Len(bytes))
        /\ ringBuf' = r.buffer
        /\ rxCrypto' = r.crypto
        /\ unpacked' = unpacked \o r.messages
        /\ unpackErr' = r.err

CodecDeliver(n) ==
    /\ unpackErr = ""
    /\ n \in 1..Len(wire)
    /\ n <= MaxChunk \/ n = Len(wire)
    /\ WriteAndUnpack(n, wire)
    /\ UNCHANGED << ltdCfg, bufferPool, txCrypto, hmacKey, packed, tamper >>
    /\ UNCHANGED << sessVars, hsVars, idVars, lateVars >>

\* one bit of the first frame of a connection that checks checksums is
\* flipped in flight, and the receiver writes the frame into the empty ring
\* and calls Unpack
CodecTamper(at, bit) ==
    /\ ltdCfg.whetherChecksum
    /\ unpackErr = ""
    /\ tamper.at = 0
    /\ Len(packed) = 1
    /\ ringBuf = << >>
    /\ wire = packed[Len(packed)].frame
    /\ at \in 1..Len(wire)
    /\ bit \in 0..7
    /\ tamper' = [at |-> at, bit |-> bit]
    /\ WriteAndUnpack(Len(wire), FlipBit(wire, at, bit))
    /\ UNCHANGED << ltdCfg, bufferPool, txCrypto, hmacKey, packed >>
    /\ UNCHANGED << sessVars, hsVars, idVars, lateVars >>

CodecNext ==
    \/ \E b1, b2 \in 1..MaxBuf : \E message \in MessagesFor(Len(packed) + 1) :
          CodecPack(message, b1, b2)
    \/ \E n \in (1..MaxChunk) \cup {Len(wire)} : CodecDeliver(n)
    \/ \E at \in 1..Len(wire) : \E bit \in 0..7 : CodecTamper(at, bit)

SpecCodec == CodecInit /\ [][CodecNext]_vars

(***************************************************************************)
(* The key exchange                                                        *)
(***************************************************************************)
\* the length of a private key, a public key, a shared secret and a nonce
KeySize == 32

\* curve25519 stands as the powers of BasePoint modulo FieldPrime: a scalar
\* or a point is the little-endian number in its bytes, below 256 here
FieldPrime == 251
BasePoint == 6

LittleEndian(v) == [i \in 1..KeySize |-> IF i = 1 THEN v % 256 ELSE 0]
Scalar(bytes) == bytes[1]

RECURSIVE PowMod(_, _)
PowMod(b, e) == IF e = 0 THEN 1 ELSE (b * PowMod(b, e - 1)) % FieldPrime

\* libCurve.ScalarBaseMult and libCurve.X25519, which refuses the all-zero
\* result
ScalarBaseMult(privateKey) == LittleEndian(PowMod(BasePoint, Scalar(privateKey)))

X25519(privateKey, publicKey) ==
    LET out == LittleEndian(PowMod(Scalar(publicKey), Scalar(privateKey)))
    IN  IF Len(publicKey) # KeySize \/ Scalar(out) = 0
        THEN [err |-> TRUE, out |-> << >>]
        ELSE [err |-> FALSE, out |-> out]

\* GenerateShareKey; its callers drop the error
GenerateShareKey(privateKey, targetPublicKey) == X25519(privateKey, targetPublicKey)

\* the private keys rand.Intn fills and the nonces zerorandom.Bytes(32)
\* returns
PrivateKeys == { LittleEndian(k) : k \in {2, 5} }
RandomValues == { [i \in 1..KeySize |-> (seed + i) % 256] : seed \in {10, 200} }

\* hex.EncodeToString: two digits per byte, a digit standing for its
\* character; hex.DecodeString: the bytes decoded before the first error
RECURSIVE HexEncodeToString(_)
HexEncodeToString(bytes) ==
    IF bytes = << >> THEN << >>
    ELSE << Head(bytes) \div 16, Head(bytes) % 16 >> \o HexEncodeToString(Tail(bytes))

RECURSIVE HexDecodeString(_)
HexDecodeString(str) ==
    IF Len(str) < 2 THEN << >>
    ELSE IF str[1] > 15 \/ str[2] > 15 THEN << >>
    ELSE << (str[1] * 16) + str[2] >> \o HexDecodeString(SubSeq(str, 3, Len(str)))

\* zerojson.Marshal and Unmarshal of ExchangeRequest and ExchageResponse:
\* the two strings public_key and r, with a character between them that is
\* no hex digit
JsonSep == 44

Marshal(v) == v.PublicKey \o << JsonSep >> \o v.R

RECURSIVE IndexOf(_, _, _)
IndexOf(str, c, i) ==
    IF i > Len(str) THEN 0 ELSE IF str[i] = c THEN i ELSE IndexOf(str, c, i + 1)

Unmarshal(bytes) ==
    LET at == IndexOf(bytes, JsonSep, 1)
    IN  IF at = 0
        THEN [err |-> TRUE, PublicKey |-> << >>, R |-> << >>]
        ELSE [err |-> FALSE,
              PublicKey |-> SubSeq(bytes, 1, at - 1),
              R |-> SubSeq(bytes, at + 1, Len(bytes))]

\* ecdh.BuildKey: the shared key, the server's nonce, the client's nonce
BuildKeyClientFirst(sharedKey, rs, rc) == sharedKey \o rc \o rs

BuildKey(sharedKey, rs, rc) == sharedKey \o rs \o rc

\* ExchangeKeyRequest, for the private key and the nonce it generated
ExchangeKeyRequest(privateKey, randomValue) ==
    LET request == [PublicKey |-> HexEncodeToString(ScalarBaseMult(privateKey)),
                    R |-> HexEncodeToString(randomValue)]
    IN  [privateKey |-> privateKey,
         randomValue |-> randomValue,
         message |-> NewLTDMessage(FlagZero, 0, 0, 0, FlagZeroExchangeKeyRequest,
                                   Marshal(request))]

\* ExchangeKeyResponse, for the private key and the nonce it generated
ExchangeKeyResponse(requestBytes, privateKey, randomValue) ==
    LET request == Unmarshal(requestBytes)
        peerClientPublicKey == HexDecodeString(request.PublicKey)
        peerClientRandomValue == HexDecodeString(request.R)
        serverSharedKey == GenerateShareKey(privateKey, peerClientPublicKey).out
        response == [PublicKey |-> HexEncodeToString(ScalarBaseMult(privateKey)),
                     R |-> HexEncodeToString(randomValue)]
    IN  IF Len(requestBytes) = 0 \/ request.err
        THEN [err |-> TRUE, key |-> << >>, message |-> NoMessage]
        ELSE [err |-> FALSE,
              key |-> BuildKey(serverSharedKey, randomValue, peerClientRandomValue),
              message |-> NewLTDMessage(FlagZero, 0, 0, 0, FlagZeroExchangeKeyResponse,
                                        Marshal(response))]

\* ExchangeKeyParseResponse
ExchangeKeyParseResponse(responseBytes, privateKey, randomValue) ==
    LET response == Unmarshal(responseBytes)
        peerServerPublicKey == HexDecodeString(response.PublicKey)
        peerServerRandomValue == HexDecodeString(response.R)
        clientSharedKey == GenerateShareKey(privateKey, peerServerPublicKey).out
    IN  IF Len(responseBytes) = 0 \/ response.err
        THEN [err |-> TRUE, key |-> << >>]
        ELSE [err |-> FALSE,
              key |-> BuildKey(clientSharedKey, peerServerRandomValue, randomValue)]

\* the two sessions of a connection
Sides == {"client", "server"}
Other(side) == IF side = "client" THEN "server" ELSE "client"

\* session.paramters without ecdhPrivateKey and ecdhRandomValue
NoParamters == [present |-> FALSE, ecdhPrivateKey |-> << >>, ecdhRandomValue |-> << >>]

InitHandshake ==
    /\ sessCrypto = [side \in Sides |-> NoCrypto]
    /\ sessChecksumKey = [side \in Sides |-> << >>]
    /\ sessParamters = [side \in Sides |-> NoParamters]
    /\ sessOpen = [side \in Sides |-> TRUE]
    /\ zeroInbox = [side \in Sides |-> << >>]
    /\ derivedKeys = << >>
    /\ exchangesBegun = 0
    /\ resends = 0
    /\ CodecOff
    /\ SessionOff
    /\ IdsOff
    /\ LateOff

\* the client's code begins a key exchange: ExchangeKeyRequest, the private
\* key and the nonce kept in the session's parameters, the request sent
ClientExchangeKeyRequest(privateKey, randomValue) ==
    /\ sessOpen["client"]
    /\ ~sessParamters["client"].present
    /\ exchangesBegun < MaxExchanges
    /\ exchangesBegun' = exchangesBegun + 1
    /\ LET r == ExchangeKeyRequest(privateKey, randomValue)
       IN  /\ sessParamters' = [sessParamters EXCEPT !["client"] =
                                  [present |-> TRUE,
                                   ecdhPrivateKey |-> r.privateKey,
                                   ecdhRandomValue |-> r.randomValue]]
           /\ zeroInbox' = [zeroInbox EXCEPT !["server"] = Append(@, r.message)]
    /\ UNCHANGED << sessCrypto, sessChecksumKey, sessOpen, derivedKeys, resends >>
    /\ UNCHANGED << codecVars, sessVars, idVars, lateVars >>

\* dispatchLoop and handleExchangeKeyRequest: the key is derived and
\* installed, the response sent; an error of ExchangeKeyResponse ends
\* dispatchLoop, which closes the session
HandleExchangeKeyRequest(side, privateKey, randomValue) ==
    /\ sessOpen[side]
    /\ zeroInbox[side] # << >>
    /\ Head(zeroInbox[side]).action = FlagZeroExchangeKeyRequest
    /\ LET message == Head(zeroInbox[side])
           r == ExchangeKeyResponse(message.payload, privateKey, randomValue)
       IN  IF r.err
           THEN /\ sessOpen' = [sessOpen EXCEPT ![side] = FALSE]
                /\ zeroInbox' = [zeroInbox EXCEPT ![side] = Tail(@)]
                /\ UNCHANGED << sessCrypto, sessChecksumKey, derivedKeys >>
           ELSE /\ sessCrypto' = [sessCrypto EXCEPT ![side] = NewCrypto(r.key)]
                /\ sessChecksumKey' = [sessChecksumKey EXCEPT ![side] = r.key]
                /\ zeroInbox' = [zeroInbox EXCEPT ![side] = Tail(@),
                                                  ![Other(side)] = Append(@, r.message)]
                /\ derivedKeys' = Append(derivedKeys,
                                         [role |-> "responder", key |-> r.key,
                                          privateKey |-> privateKey,
                                          randomValue |-> randomValue,
                                          from |-> message.payload])
                /\ UNCHANGED sessOpen
    /\ UNCHANGED << sessParamters, exchangesBegun, resends >>
    /\ UNCHANGED << codecVars, sessVars, idVars, lateVars >>

\* dispatchLoop and handleExchangeKeyResponse: without the two parameters
\* the type assertion panics, and an error ends dispatchLoop; else the key
\* is derived and installed and the parameters are set to nil
HandleExchangeKeyResponse(side) ==
    /\ sessOpen[side]
    /\ zeroInbox[side] # << >>
    /\ Head(zeroInbox[side]).action = FlagZeroExchangeKeyResponse
    /\ zeroInbox' = [zeroInbox EXCEPT ![side] = Tail(@)]
    /\ LET message == Head(zeroInbox[side])
           paramters == sessParamters[side]
           r == ExchangeKeyParseResponse(message.payload, paramters.ecdhPrivateKey,
                                         paramters.ecdhRandomValue)
       IN  IF \/ ~paramters.present
              \/ Len(paramters.ecdhPrivateKey) = 0
              \/ Len(paramters.ecdhRandomValue) = 0
              \/ r.err
           THEN /\ sessOpen' = [sessOpen EXCEPT ![side] = FALSE]
                /\ UNCHANGED << sessCrypto, sessChecksumKey, sessParamters, derivedKeys >>
           ELSE /\ sessCrypto' = [sessCrypto EXCEPT ![side] = NewCrypto(r.key)]
                /\ sessChecksumKey' = [sessChecksumKey EXCEPT ![side] = r.key]
                /\ sessParamters' = [sessParamters EXCEPT ![side] = NoParamters]
                /\ derivedKeys' = Append(derivedKeys,
                                         [role |-> "initiator", key |-> r.key,
                                          privateKey |-> paramters.ecdhPrivateKey,
                                          randomValue |-> paramters.ecdhRandomValue,
                                          from |-> message.payload])
                /\ UNCHANGED sessOpen
    /\ UNCHANGED << exchangesBegun, resends >>
    /\ UNCHANGED << codecVars, sessVars, idVars, lateVars >>

\* the peer of side sends again the frame it sent last
PeerResends(side) ==
    /\ resends < MaxResends
    /\ zeroInbox[side] # << >>
    /\ resends' = resends + 1
    /\ zeroInbox' = [zeroInbox EXCEPT ![side] = Append(@, @[Len(@)])]
    /\ UNCHANGED << sessCrypto, sessChecksumKey, sessParamters, sessOpen,
                    derivedKeys, exchangesBegun >>
    /\ UNCHANGED << codecVars, sessVars, idVars, lateVars >>

NextHandshake ==
    \/ \E privateKey \in PrivateKeys : \E randomValue \in RandomValues :
          ClientExchangeKeyRequest(privateKey, randomValue)
    \/ \E side \in Sides : \E privateKey \in PrivateKeys : \E randomValue \in RandomValues :
          HandleExchangeKeyRequest(side, privateKey, randomValue)
    \/ \E side \in Sides : HandleExchangeKeyResponse(side)
    \/ \E side \in Sides : PeerResends(side)

SpecHandshake == InitHandshake /\ [][NextHandshake]_vars

(***************************************************************************)
(* Session ids                                                             *)
(***************************************************************************)
\* two servers: a websocket server, whose upgrade handlers run concurrently
\* and take ids from its session manager, and a tcp server, whose one accept
\* loop counts in a field of its own
Servers == {"ws", "tcp"}
Acceptors == {"ws1", "ws2", "tcp1"}
ServerOf(a) == IF a = "tcp1" THEN "tcp" ELSE "ws"

\* atomic.AddUint64: the new value (the counters stay far below 2^64 here)
AddUint64(addr, delta) == addr + delta

\* sessionManager.GenSessionID: the counter after the call and the id returned
GenSessionIDNoStore(counter) == [counter |-> counter, id |-> AddUint64(counter, 1)]

GenSessionID(counter) ==
    [counter |-> AddUint64(counter, 1), id |-> AddUint64(counter, 1)]

InitIds ==
    /\ genSessionID = [srv \in Servers |-> 0]
    /\ issued = [srv \in Servers |-> << >>]
    /\ acceptPc = [a \in Acceptors |-> "accept"]
    /\ acceptID = [a \in Acceptors |-> 0]
    /\ registered = [srv \in Servers |-> { }]
    /\ CodecOff
    /\ SessionOff
    /\ HandshakeOff
    /\ LateOff

\* wsHandler: newSession(s.sessionManager.GenSessionID(), ...)
WsNewSession(a) ==
    /\ ServerOf(a) = "ws"
    /\ acceptPc[a] = "accept"
    /\ genSessionID["ws"] < MaxIds
    /\ LET r == GenSessionID(genSessionID["ws"])
       IN  /\ genSessionID' = [genSessionID EXCEPT !["ws"] = r.counter]
           /\ acceptID' = [acceptID EXCEPT ![a] = r.id]
           /\ issued' = [issued EXCEPT !["ws"] = Append(@, r.id)]
    /\ acceptPc' = [acceptPc EXCEPT ![a] = "add"]
    /\ UNCHANGED registered
    /\ UNCHANGED << codecVars, sessVars, hsVars, lateVars >>

\* tcp listen: atomic.AddUint64(&s.genSessionID, 1)
TcpAddUint64(a) ==
    /\ ServerOf(a) = "tcp"
    /\ acceptPc[a] = "accept"
    /\ genSessionID["tcp"] < MaxIds
    /\ genSessionID' = [genSessionID EXCEPT !["tcp"] = AddUint64(@, 1)]
    /\ acceptPc' = [acceptPc EXCEPT ![a] = "new"]
    /\ UNCHANGED << issued, acceptID, registered >>
    /\ UNCHANGED << codecVars, sessVars, hsVars, lateVars >>

\* tcp listen: newSession(s.genSessionID, ...), a plain read of the field
TcpNewSession(a) ==
    /\ acceptPc[a] = "new"
    /\ acceptID' = [acceptID EXCEPT ![a] = genSessionID["tcp"]]
    /\ issued' = [issued EXCEPT !["tcp"] = Append(@, genSessionID["tcp"])]
    /\ acceptPc' = [acceptPc EXCEPT ![a] = "add"]
    /\ UNCHANGED << genSessionID, registered >>
    /\ UNCHANGED << codecVars, sessVars, hsVars, lateVars >>

\* s.sessionManager.Add(session)
SessionManagerAdd(a) ==
    /\ acceptPc[a] = "add"
    /\ registered' = [registered EXCEPT ![ServerOf(a)] = @ \cup { acceptID[a] }]
    /\ acceptID' = [acceptID EXCEPT ![a] = 0]
    /\ acceptPc' = [acceptPc EXCEPT ![a] = "accept"]
    /\ UNCHANGED << genSessionID, issued >>
    /\ UNCHANGED << codecVars, sessVars, hsVars, lateVars >>

\* a session closes: sessionManager.Del
SessionManagerDel(srv, id) ==
    /\ id \in registered[srv]
    /\ registered' = [registered EXCEPT ![srv] = Del(@, id).sessions]
    /\ UNCHANGED << genSessionID, issued, acceptPc, acceptID >>
    /\ UNCHANGED << codecVars, sessVars, hsVars, lateVars >>

NextIds ==
    \/ \E a \in Acceptors : WsNewSession(a)
    \/ \E a \in Acceptors : TcpAddUint64(a)
    \/ \E a \in Acceptors : TcpNewSession(a)
    \/ \E a \in Acceptors : SessionManagerAdd(a)
    \/ \E srv \in Servers : \E id \in 1..MaxIds : SessionManagerDel(srv, id)

SpecIds == InitIds /\ [][NextIds]_vars

(***************************************************************************)
(* Properties of the codec                                                 *)
(***************************************************************************)
\* flag without the bits Pack derives: Compress, Encrypt, Checksum
StripDerived(flag) ==
    ClearFlag(ClearFlag(ClearFlag(flag, FlagCompress), FlagEncrypt), FlagChecksum)

Plain(message) == [message EXCEPT !.flag = StripDerived(@)]

\* the length of the first k frames packed
RECURSIVE FramesLen(_)
FramesLen(k) == IF k = 0 THEN 0 ELSE Len(packed[k].frame) + FramesLen(k - 1)

\* the frames packed, concatenated
RECURSIVE FramesUpTo(_)
FramesUpTo(k) == IF k = 0 THEN << >> ELSE FramesUpTo(k - 1) \o packed[k].frame

\* the number of bytes written into the ring so far
Delivered == FramesLen(Len(packed)) - Len(wire)

\* the number of frames that have been written into the ring completely
CompleteFrames ==
    CHOOSE k \in 0..Len(packed) :
        /\ FramesLen(k) <= Delivered
        /\ k < Len(packed) => FramesLen(k + 1) > Delivered

\* C1: round trip.  Every message returned by Unpack equals the message
\* that was packed in sn, code, module, action and payload, and in flag but
\* for the bits Compress, Encrypt and Checksum; and once every frame has
\* been written into the ring, each frame has yielded exactly one message.
RoundTrip ==
    tamper.at = 0 =>
        /\ Len(unpacked) <= Len(packed)
        /\ \A i \in 1..Len(unpacked) :
              LET m == packed[i].message
                  u == unpacked[i]
              IN  /\ u.sn = m.sn
                  /\ u.code = m.code
                  /\ u.module = m.module
                  /\ u.action = m.action
                  /\ u.payload = m.payload
                  /\ StripDerived(u.flag) = StripDerived(m.flag)
        /\ (wire = << >> /\ unpackErr = "") => Len(unpacked) = Len(packed)

\* C2: framing under any chunking.  However the frames are split into the
\* chunks written into the ring, the lists returned by the Unpack calls
\* concatenate to the messages packed, in order, and the ring ends empty.
FramingAnyChunking ==
    tamper.at = 0 =>
        /\ Len(unpacked) <= Len(packed)
        /\ unpacked = [i \in 1..Len(unpacked) |-> Plain(packed[i].message)]
                      \/ [i \in 1..Len(unpacked) |-> Plain(unpacked[i])]
                          = [i \in 1..Len(unpacked) |-> Plain(packed[i].message)]
        /\ wire = << >> => (Len(unpacked) = Len(packed) /\ ringBuf = << >>)

\* C3: partial frames.  When the ring has been given complete frames
\* followed by a proper prefix of a frame, Unpack has returned, without
\* error, exactly one message per complete frame (that frame's sn and flag,
\* and its module, action and payload as they stand in the frame), and the
\* ring holds exactly the bytes of the incomplete frame; as this holds after
\* every write, the pending message is returned once its bytes are there.
PartialFrames ==
    tamper.at = 0 =>
        /\ unpackErr = ""
        /\ Len(unpacked) = CompleteFrames
        /\ ringBuf = SubSeq(FramesUpTo(Len(packed)), FramesLen(CompleteFrames) + 1, Delivered)
        /\ \A i \in 1..Len(unpacked) :
              LET m == packed[i].message
                  u == unpacked[i]
              IN  /\ u.sn = m.sn
                  /\ StripDerived(u.flag) = StripDerived(m.flag)
                  /\ ~packed[i].clobbered =>
                        (u.module = m.module /\ u.action = m.action /\ u.payload = m.payload)

\* C3 witness: Unpack has returned the first message and left a cut header
\* of the second frame in the ring
PartialFramesWitness ==
    /\ tamper.at = 0
    /\ Len(packed) = 2
    /\ Len(unpacked) = 1
    /\ ringBuf # << >>
    /\ Len(ringBuf) < ltdCfg.headLen

\* a bit outside the checksum slot of a data frame was flipped, between
\* endpoints that check checksums and hold a key
TamperedData ==
    /\ tamper.at # 0
    /\ ltdCfg.whetherChecksum
    /\ hmacKey # << >>
    /\ ~HasFlag(packed[1].message.flag, FlagZero)
    /\ tamper.at <= 6 \/ tamper.at > 6 + ChecksumLength

IntegrityErrors == {"NoChecksumFlag", "VerifyChecksum"}

FlippedFlagZero == tamper.at = 3 /\ tamper.bit = 4

\* the flipped bit lies in len
FlippedLen == tamper.at <= 2

FrameMessage(frame) == Unpack(SessionLtd, frame, NoCrypto, << >>).messages[1]

\* the messages whose frames the peer has sent, in order
Arrived == [k \in 1..Len(peerFrames) |-> FrameMessage(peerFrames[k])]

\* the length of the first k frames of the peer
RECURSIVE PeerLen(_)
PeerLen(k) == IF k = 0 THEN 0 ELSE Len(peerFrames[k]) + PeerLen(k - 1)

\* the bytes recvLoop has read, and the frames that lie in them completely
BytesRead == PeerLen(Len(peerFrames)) - Len(wire)

FramesRead ==
    CHOOSE k \in 0..Len(peerFrames) :
        /\ PeerLen(k) <= BytesRead
        /\ k < Len(peerFrames) => PeerLen(k + 1) > BytesRead

IsPrefix(s, t) == Len(s) <= Len(t) /\ s = SubSeq(t, 1, Len(s))

\* C5: inbound ordering.  The messages handed to the handler or to
\* handleZero are, in order, the first messages whose frames arrived; and
\* as long as the session receives, the messages of every frame read in
\* full are, in arrival order, those handed over, then those in recvQueue,
\* then those recvLoop is about to queue: none is dropped, duplicated or
\* reordered.
InboundOrder ==
    /\ IsPrefix(handled, Arrived)
    /\ ~isStopRecv => handled \o recvQueue \o recvBatch = SubSeq(Arrived, 1, FramesRead)

\* C5 witness: every frame of the peer has been read and its message handed
\* over, in a session that still receives
InboundOrderWitness ==
    /\ peerFrames # << >>
    /\ Len(handled) = Len(peerFrames)
    /\ ~isStopRecv

\* C6: outbound ordering.  The frames written are, in order, the first
\* messages that Send enqueued, whichever goroutine called it; and unless
\* a write failed, the messages enqueued are those written, then the one
\* being written, then those in sendQueue.
OutboundOrder ==
    /\ IsPrefix(written, sendLog)
    /\ ~writeFailed =>
          sendLog = written \o (IF pc["send"] = "write" THEN << sendCur >> ELSE << >>) \o sendQueue

\* C6 witness: messages enqueued by dispatchLoop and by user code have all
\* been written
OutboundOrderWitness ==
    /\ Len(written) = 3
    /\ \E i \in 1..3 : written[i] = UserMessage(1)

\* C7: close idempotence.  However often Close is called on the session and
\* on the server, and by whichever goroutines, closeCallback, OnConnClose
\* and OnServerClose have each run at most once, the conn, the listener and
\* the channels have each been closed at most once, and no call of Close
\* has panicked.
CloseIdempotent ==
    /\ \A k \in DOMAIN fired : fired[k] <= 1
    /\ closePanics = 0

\* C7 witness: the session and the server are closed, every loop has
\* returned from its own call of Close, and user code has made all its calls
CloseIdempotentWitness ==
    /\ fired.connClose = 1
    /\ fired.onServerClose = 1
    /\ \A p \in Loops : pc[p] = "exited"
    /\ pc["app"] = "idle"
    /\ appCalls = MaxCloseCalls

\* C8: close always completes.  A Close that has started is never left at
\* the send on closeCh with no loop left to receive it, where it would stay
\* forever short of Closed.
CloseCompletes ==
    ~ \E p \in Procs :
          /\ pc[p] = "c_signal"
          /\ ~chClosed
          /\ \A q \in Selectors : pc[q] \in {"exited", "c_signal"}

\* C9: drain on close.  When the conn is closed and no write has failed,
\* every message that Send had enqueued before Close began has been written.
DrainOnClose ==
    (fired.connClose > 0 /\ ~writeFailed) => Len(written) >= acceptedAtClose

\* C10: no enqueue after stop.  Once isStopSend is set, no call of Send
\* adds a message to sendQueue.
NoEnqueueAfterStop ==
    [][isStopSend => sendLog' = sendLog]_vars

\* the step is a call of Send by goroutine p that ends in ErrWriteTimeout:
\* the queue is open and full, and p leaves the select of SendCallback
SendTimesOut(p) ==
    /\ pc[p] = "enqueue"
    /\ ~chClosed
    /\ Len(sendQueue) = SendQueueSize
    /\ pc'[p] # "enqueue"

\* C11: backpressure.  A Send that times out on the full queue enqueues
\* nothing and leaves the queue as it was, and its caller goes on: user code
\* returns from the call, dispatchLoop returns to its select; no Close is
\* started by it.
Backpressure ==
    [][ /\ SendTimesOut("user") =>
              (sendQueue' = sendQueue /\ sendLog' = sendLog /\ pc'["user"] = "idle")
        /\ SendTimesOut("dispatch") =>
              (sendQueue' = sendQueue /\ sendLog' = sendLog /\ pc'["dispatch"] = "select") ]_vars

\* the message at the head of recvQueue is one no route serves
HeadUnrouted ==
    /\ recvQueue # << >>
    /\ ~HasFlag(Head(recvQueue).flag, FlagZero)
    /\ RouterID(Head(recvQueue).module, Head(recvQueue).action) \notin Routes

\* C12: a routing miss keeps the session alive.  When dispatchLoop takes a
\* message no route serves (and no fallback is set), it goes back to its
\* select and starts no Close.
RoutingMissKeepsSession ==
    [][ (HeadUnrouted /\ handled' # handled) => pc'["dispatch"] = "select" ]_vars

\* the position of the first frame of the peer that does not unpack, 0 if
\* every frame does
RECURSIVE FirstBad(_, _)
FirstBad(frames, k) ==
    IF k > Len(frames) THEN 0
    ELSE IF Unpack(ltdCfg, frames[k], NoCrypto, << >>).err # "" THEN k
    ELSE FirstBad(frames, k + 1)

BadIndex == FirstBad(peerFrames, 1)

\* C13: receive errors are fatal.  Once recvLoop has read the whole of a
\* frame that Unpack refuses, it is out of its loop (on its way through the
\* deferred Close, or ended), and every message ever dispatched is one of
\* the frames before the bad one, in their order.
ReceiveErrorsFatal ==
    BadIndex # 0 =>
        /\ Len(handled) < BadIndex
        /\ \A i \in 1..Len(handled) : handled[i] = FrameMessage(peerFrames[i])
        /\ BytesRead >= PeerLen(BadIndex) => pc["recv"] \notin {"read", "enqueue"}

\* recvLoop has read a bad frame that had frames after it, a message that
\* came before it was dispatched, and the session has closed
ReceiveErrorsFatalWitness ==
    /\ BadIndex = 2
    /\ Len(peerFrames) > BadIndex
    /\ BytesRead >= PeerLen(BadIndex)
    /\ Len(handled) = 1
    /\ pc["recv"] = "exited"
    /\ closeOnce

\* a call of Close has passed the callbacks, or a loop has ended
EndReached ==
    \/ closeOnce
    \/ \E p \in Procs : pc[p] \in {"c_wait", "c_signal", "c_finish", "exited"}

\* C14: the end of a session is observed exactly once.  Before any Close
\* neither closeCallback nor OnConnClose has run; from the first Close on,
\* whichever loop or caller made it and whatever calls follow or race with
\* it (the one sessionManager.Del makes from inside closeCallback among
\* them), each of the two has run exactly once.
EndObservedOnce ==
    /\ ~EndReached => (fired.closeCallback = 0 /\ fired.onConnClose = 0)
    /\ EndReached => (fired.closeCallback = 1 /\ fired.onConnClose = 1)

\* C14 witness: dispatchLoop made the effective Close after a message, the
\* two other loops and user code called Close as well and have returned
EndObservedOnceWitness ==
    /\ handled # << >>
    /\ pc["dispatch"] \in {"c_wait", "c_signal", "c_finish"}
    /\ pc["recv"] = "exited"
    /\ pc["send"] = "exited"
    /\ appCalls >= 1
    /\ pc["app"] = "idle"
    /\ fired.onConnClose = 1
    /\ fired.closeCallback = 1

\* the message at the head of recvQueue is a heartbeat
HeadHeartBeat ==
    /\ recvQueue # << >>
    /\ HasFlag(Head(recvQueue).flag, FlagZero)
    /\ Head(recvQueue).action = FlagZeroHeartBeat

\* C19: heartbeat echo.  When dispatchLoop takes a heartbeat in a session
\* that still sends, the heartbeat itself is what it goes on to send back,
\* and it starts no Close.
HeartBeatEcho ==
    [][ (HeadHeartBeat /\ ~isStopSend /\ handled' # handled) =>
            (pc'["dispatch"] = "enqueue" /\ dispCur' = Head(recvQueue)) ]_vars

\* the request the initiator sent for a key it derived, and the response the
\* responder sent for a key it derived
RequestOf(d) == ExchangeKeyRequest(d.privateKey, d.randomValue).message.payload
ResponseOf(d) == ExchangeKeyResponse(d.from, d.privateKey, d.randomValue).message.payload

\* c and s are the two derivations of one exchange: s answered the request
\* of c, and c was derived from that answer
SameExchange(c, s) ==
    /\ c.role = "initiator"
    /\ s.role = "responder"
    /\ s.from = RequestOf(c)
    /\ c.from = ResponseOf(s)

\* C15: handshake convergence.  The key the responder derives while
\* answering a request and the key the initiator derives from that answer
\* are equal; they are the shared secret, then the responder's nonce, then
\* the initiator's, and 96 bytes long.
HandshakeConvergence ==
    \A i, j \in 1..Len(derivedKeys) :
        LET c == derivedKeys[i]
            s == derivedKeys[j]
        IN  SameExchange(c, s) =>
                /\ c.key = s.key
                /\ c.key = X25519(c.privateKey, ScalarBaseMult(s.privateKey)).out
                             \o s.randomValue \o c.randomValue
                /\ Len(c.key) = 96

\* C15 witness: an exchange is complete between sides with different private
\* keys and different nonces, and both hold the key
HandshakeConvergenceWitness ==
    \E i, j \in 1..Len(derivedKeys) :
        /\ SameExchange(derivedKeys[i], derivedKeys[j])
        /\ derivedKeys[i].privateKey # derivedKeys[j].privateKey
        /\ derivedKeys[i].randomValue # derivedKeys[j].randomValue
        /\ sessChecksumKey["client"] = derivedKeys[i].key
        /\ sessChecksumKey["server"] = derivedKeys[j].key

\* a handshake has installed the crypto instance and the HMAC key of side
KeysInstalled(side) == sessCrypto[side].present /\ sessChecksumKey[side] # << >>

\* C16: keys are installed once.  No step changes the key of the crypto
\* instance or the HMAC key of a session on which a handshake has installed
\* them.
KeysInstalledOnce ==
    [][ \A side \in Sides :
            KeysInstalled(side) =>
                /\ sessCrypto'[side].key = sessCrypto[side].key
                /\ sessChecksumKey'[side] = sessChecksumKey[side] ]_vars

\* C17: no data before the handshake.  On a connection that requires
\* encryption and has no crypto instance, no data message is packed into a
\* frame and no data message is returned by Unpack.
NoDataBeforeHandshake ==
    (ltdCfg.whetherCrypto /\ ~txCrypto.present /\ ~rxCrypto.present) =>
        /\ \A i \in 1..Len(packed) : HasFlag(packed[i].message.flag, FlagZero)
        /\ \A i \in 1..Len(unpacked) : HasFlag(unpacked[i].flag, FlagZero)

\* the HMAC keys and the crypto instances a receiver may hold
ReceiverKeys == { << >>, SessionKey, << 1 >> }
ReceiverCryptos == { NoCrypto, NewCrypto(SessionKey), NewCrypto(<< 1 >>) }

\* the flag field of a frame
FrameFlag(frame) == ToUint16(SubSeq(frame, 3, 4))

\* C18: control frames travel in the clear.  The frame packed for a
\* FlagZero message has FlagEncrypt clear and is the frame Pack gives
\* without any crypto instance or HMAC key; with checksums enabled its
\* checksum slot is all zero; and Unpack returns its message without an
\* error whatever crypto instance and HMAC key the receiver holds.
ControlFramesClear ==
    \A i \in 1..Len(packed) :
        LET message == packed[i].message
            frame == packed[i].frame
        IN  HasFlag(message.flag, FlagZero) =>
                /\ ~HasFlag(FrameFlag(frame), FlagEncrypt)
                /\ \E sameBuffer \in BOOLEAN :
                      frame = Pack(ltdCfg, message, NoCrypto, << >>, sameBuffer).bytes
                /\ ltdCfg.whetherChecksum =>
                      SubSeq(frame, 7, 6 + ChecksumLength) = emptyChecksum
                /\ \A crypto \in ReceiverCryptos : \A checksumKey \in ReceiverKeys :
                      LET r == Unpack(ltdCfg, frame, crypto, checksumKey)
                      IN  /\ r.err = ""
                          /\ Len(r.messages) = 1
                          /\ HasFlag(r.messages[1].flag, FlagZero)
                          /\ r.crypto = crypto
                          /\ r.buffer = << >>

\* C18 witness: encryption and checksums are enabled, the key is installed,
\* and a FlagZero message with a payload was packed after a data message and
\* has been unpacked
ControlFramesClearWitness ==
    /\ ltdCfg.whetherCrypto
    /\ ltdCfg.whetherChecksum
    /\ txCrypto.present
    /\ hmacKey = SessionKey
    /\ Len(packed) = 2
    /\ ~HasFlag(packed[1].message.flag, FlagZero)
    /\ HasFlag(packed[2].message.flag, FlagZero)
    /\ packed[2].message.payload # << >>
    /\ Len(unpacked) = 2
    /\ unpackErr = ""

\* C20: session id allocation.  In each server the first id given to a
\* session is 1 and every later one is larger than all before it; so no two
\* sessions of a server have the same id, whether registered or still in
\* the hands of the goroutines that accepted them, and no id comes back
\* after its session was removed.
SessionIdAllocation ==
    \A srv \in Servers :
        /\ issued[srv] # << >> => issued[srv][1] = 1
        /\ \A i, j \in 1..Len(issued[srv]) : i < j => issued[srv][i] < issued[srv][j]
        /\ \A a, b \in Acceptors :
              (a # b /\ ServerOf(a) = srv /\ ServerOf(b) = srv
                 /\ acceptPc[a] = "add" /\ acceptPc[b] = "add") => acceptID[a] # acceptID[b]
        /\ \A a \in Acceptors :
              (ServerOf(a) = srv /\ acceptPc[a] = "add") => acceptID[a] \notin registered[srv]

\* C20 witness: two upgrade handlers hold new ids at the same time, after
\* the session with id 1 was registered and removed, and the tcp server has
\* given out two ids
SessionIdAllocationWitness ==
    /\ acceptPc["ws1"] = "add"
    /\ acceptPc["ws2"] = "add"
    /\ Len(issued["ws"]) >= 3
    /\ 1 \notin registered["ws"]
    /\ Len(issued["tcp"]) = 2

(***************************************************************************)
(* The router (part_012): a table from router keys to handlers, filled by  *)
(* AddRouter and read by Handler, with an optional fallback handler.       *)
(***************************************************************************)

\* the number of calls made on the router
MaxCalls == 3

\* The modules and actions the calls use: module 17 shifts out of eight
\* bits onto module 1, and action 16 of module 0 adds up to action 0 of
\* module 1.
RouterModules == {0, 1, 17}

RouterActions == {0, 2, 16}

\* the handlers an application registers; "nil" is the nil func value
Handlers == {"h1", "h2"}

\* AddRouter: a nil handler and a key already bound are refused, otherwise
\* the handler is bound to the key.  This variant binds the handler to a
\* bound key before refusing it.
AddRouterOverwrite(table, module, action, handler) ==
    LET routerID == RouterID(module, action)
        bound == [k \in (DOMAIN table) \cup {routerID} |->
                     IF k = routerID THEN handler ELSE table[k]]
    IN  IF handler = "nil"
        THEN [routes |-> table, err |-> "handle can not be nil"]
        ELSE IF routerID \in DOMAIN table
             THEN [routes |-> bound, err |-> "ErrRouterRepeated"]
             ELSE [routes |-> bound, err |-> "nil"]

AddRouter(table, module, action, handler) ==
    LET routerID == RouterID(module, action)
    IN  IF handler = "nil"
        THEN [routes |-> table, err |-> "handle can not be nil"]
        ELSE IF routerID \in DOMAIN table
             THEN [routes |-> table, err |-> "ErrRouterRepeated"]
             ELSE [routes |-> [k \in (DOMAIN table) \cup {routerID} |->
                                  IF k = routerID THEN handler ELSE table[k]],
                   err |-> "nil"]

\* Handler: the handler bound to the message's router key, else the
\* fallback when one is set, else ErrHandlerNotFound and no handler.
RouterHandler(table, fallback, module, action) ==
    LET routerID == RouterID(module, action)
    IN  IF routerID \in DOMAIN table
        THEN [invoked |-> table[routerID], err |-> "nil"]
        ELSE IF fallback # "nil"
             THEN [invoked |-> fallback, err |-> "nil"]
             ELSE [invoked |-> "nil", err |-> "ErrHandlerNotFound"]

InitRouter ==
    /\ CodecOff
    /\ SessionOff
    /\ HandshakeOff
    /\ IdsOff
    /\ LateOff

CallAddRouter(module, action, handler) ==
    /\ routerCall.n < MaxCalls
    /\ LET r == AddRouter(routes, module, action, handler)
       IN  /\ routes' = r.routes
           /\ routerCall' = [n |-> routerCall.n + 1, op |-> "AddRouter",
                             module |-> module, action |-> action,
                             handler |-> handler, err |-> r.err]
           /\ bindings' =
                 IF r.err = "nil"
                 THEN [pair \in (DOMAIN bindings)
                                   \cup {<< module, action >>} |->
                          IF pair = << module, action >>
                          THEN handler ELSE bindings[pair]]
                 ELSE bindings
    /\ UNCHANGED handlerFunc
    /\ UNCHANGED << codecVars, sessVars, hsVars, idVars, configVars,
                    admitVars, managerVars, poolVars, messageVars, restVars >>

CallSetHandlerFunc(handler) ==
    /\ routerCall.n < MaxCalls
    /\ handlerFunc' = handler
    /\ routerCall' = [n |-> routerCall.n + 1, op |-> "SetHandlerFunc",
                      handler |-> handler]
    /\ UNCHANGED << routes, bindings >>
    /\ UNCHANGED << codecVars, sessVars, hsVars, idVars, configVars,
                    admitVars, managerVars, poolVars, messageVars, restVars >>

CallHandler(module, action) ==
    /\ routerCall.n < MaxCalls
    /\ LET r == RouterHandler(routes, handlerFunc, module, action)
       IN  routerCall' = [n |-> routerCall.n + 1, op |-> "Handler",
                          module |-> module, action |-> action,
                          invoked |-> r.invoked, err |-> r.err]
    /\ UNCHANGED << routes, handlerFunc, bindings >>
    /\ UNCHANGED << codecVars, sessVars, hsVars, idVars, configVars,
                    admitVars, managerVars, poolVars, messageVars, restVars >>

NextRouter ==
    \/ \E module \in RouterModules, action \in RouterActions,
          handler \in Handlers \cup {"nil"} :
            CallAddRouter(module, action, handler)
    \/ \E handler \in Handlers : CallSetHandlerFunc(handler)
    \/ \E module \in RouterModules, action \in RouterActions :
            CallHandler(module, action)

SpecRouter == InitRouter /\ [][NextRouter]_vars

\* C21: a call of AddRouter on a key that already has a handler returns
\* ErrRouterRepeated, a call with a nil handler returns its error, and
\* either failure leaves the routing table as it was, so the handler bound
\* before still serves the key.
DuplicateRouteRefused ==
    [][ ( /\ routerCall'.n = routerCall.n + 1
          /\ routerCall'.op = "AddRouter"
          /\ \/ routerCall'.handler = "nil"
             \/ RouterID(routerCall'.module, routerCall'.action)
                    \in DOMAIN routes )
        => /\ routerCall'.err =
                 IF routerCall'.handler = "nil"
                 THEN "handle can not be nil" ELSE "ErrRouterRepeated"
           /\ routes' = routes
           /\ \A module \in RouterModules, action \in RouterActions :
                 RouterID(module, action) \in DOMAIN routes
                 => RouterHandler(routes', handlerFunc', module,
                                  action).invoked
                        = routes[RouterID(module, action)] ]_vars

\* a second registration on a bound key, with another handler, was refused
DuplicateRouteRefusedWitness ==
    /\ routerCall.op = "AddRouter"
    /\ routerCall.err = "ErrRouterRepeated"
    /\ RouterID(routerCall.module, routerCall.action) \in DOMAIN routes
    /\ routes[RouterID(routerCall.module, routerCall.action)]
           # routerCall.handler

\* C22: a call of Handler invokes the handler that was registered for the
\* message's own (module, action) pair; when no handler was registered for
\* the pair it invokes the fallback if one is set, and otherwise returns
\* ErrHandlerNotFound and invokes nothing.
RouteDispatch ==
    routerCall.op = "Handler"
    => LET pair == << routerCall.module, routerCall.action >>
       IN  IF pair \in DOMAIN bindings
           THEN routerCall.invoked = bindings[pair]
           ELSE IF handlerFunc # "nil"
                THEN routerCall.invoked = handlerFunc
                ELSE /\ routerCall.invoked = "nil"
                     /\ routerCall.err = "ErrHandlerNotFound"

(***************************************************************************)
(* RouterID on every pair of bytes: one call per behaviour, its arguments  *)
(* and its result kept in routerCall.                                      *)
(***************************************************************************)

\* the values of a uint8
Uint8 == 0 .. 255

CallRouterID(module, action) ==
    /\ routerCall' = [n |-> 1, op |-> "RouterID", module |-> module,
                      action |-> action, key |-> RouterID(module, action)]
    /\ UNCHANGED << routes, handlerFunc, bindings >>
    /\ UNCHANGED << codecVars, sessVars, hsVars, idVars, configVars,
                    admitVars, managerVars, poolVars, messageVars, restVars >>

NextRouterKey ==
    /\ routerCall = NoCall
    /\ \E module \in Uint8, action \in Uint8 : CallRouterID(module, action)

SpecRouterKey == InitRouter /\ [][NextRouterKey]_vars

\* a | b on n bits
RECURSIVE OrBits(_, _, _)
OrBits(a, b, n) ==
    IF n = 0 THEN 0
    ELSE (IF (a % 2) + (b % 2) > 0 THEN 1 ELSE 0)
         + (2 * OrBits(a \div 2, b \div 2, n - 1))

\* C23: for every module and action in 0..255 the router key is the 16-bit
\* value (module << 4) | action, the shift not cut to eight bits; and no
\* other module gives the same key with the same action when the action is
\* below 16.
RouterKeyArithmetic ==
    routerCall.op = "RouterID"
    => /\ routerCall.key
              = OrBits(routerCall.module * 16, routerCall.action, 16)
       /\ routerCall.action < 16
          => \A module \in Uint8 :
                module # routerCall.module
                => RouterID(module, routerCall.action) # routerCall.key

(***************************************************************************)
(* The options of a server (part_005) and the setters of the kcp server    *)
(* they call (kcp.go).                                                     *)
(***************************************************************************)

\* the number of options applied to one server
MaxOptions == 2

\* the values an option is given
OptionValues == {1, 2, 3}

SetRecvBufferSize(c, recvBufferSize) ==
    [c EXCEPT !.RecvBufferSize = recvBufferSize]

SetRecvDeadline(c, recvDeadLine) == [c EXCEPT !.RecvDeadline = recvDeadLine]

SetRecvQueueSize(c, recvQueueSize) ==
    [c EXCEPT !.RecvQueueSize = recvQueueSize]

SetSendBufferSize(c, recvBufferSize) ==
    [c EXCEPT !.RecvBufferSize = recvBufferSize]

SetSendDeadline(c, recvDeadLine) == [c EXCEPT !.RecvDeadline = recvDeadLine]

SetSendQueueSize(c, recvQueueSize) ==
    [c EXCEPT !.RecvQueueSize = recvQueueSize]

WithRecvBufferSize(c, recvBufferSize) == SetRecvBufferSize(c, recvBufferSize)

WithRecvDeadLine(c, recvDeadLine) == SetRecvDeadline(c, recvDeadLine)

WithRecvQueueSize(c, recvQueueSize) == SetRecvBufferSize(c, recvQueueSize)

WithSendBufferSize(c, sendBufferSize) == SetSendBufferSize(c, sendBufferSize)

WithSendDeadLine(c, sendDeadLine) == SetSendDeadline(c, sendDeadLine)

WithSendQueueSize(c, sendQueueSize) == SetSendQueueSize(c, sendQueueSize)

Options ==
    {"WithRecvBufferSize", "WithRecvDeadLine", "WithRecvQueueSize",
     "WithSendBufferSize", "WithSendDeadLine", "WithSendQueueSize"}

\* opt(s): the option applied to the server's configuration
ApplyOption(option, c, value) ==
    CASE option = "WithRecvBufferSize" -> WithRecvBufferSize(c, value)
      [] option = "WithRecvDeadLine" -> WithRecvDeadLine(c, value)
      [] option = "WithRecvQueueSize" -> WithRecvQueueSize(c, value)
      [] option = "WithSendBufferSize" -> WithSendBufferSize(c, value)
      [] option = "WithSendDeadLine" -> WithSendDeadLine(c, value)
      [] option = "WithSendQueueSize" -> WithSendQueueSize(c, value)

InitConfig ==
    /\ CodecOff
    /\ SessionOff
    /\ HandshakeOff
    /\ IdsOff
    /\ LateOff

\* WithOption: one option of the list applied
WithOption(option, value) ==
    /\ optionCall.n < MaxOptions
    /\ config' = ApplyOption(option, config, value)
    /\ optionCall' = [n |-> optionCall.n + 1, op |-> option, value |-> value]
    /\ UNCHANGED << codecVars, sessVars, hsVars, idVars, routerVars,
                    admitVars, managerVars, poolVars, messageVars, restVars >>

NextConfig ==
    \E option \in Options, value \in OptionValues : WithOption(option, value)

SpecConfig == InitConfig /\ [][NextConfig]_vars

\* the setting an option is named after
OwnField(option) ==
    CASE option = "WithRecvBufferSize" -> "RecvBufferSize"
      [] option = "WithRecvDeadLine" -> "RecvDeadline"
      [] option = "WithRecvQueueSize" -> "RecvQueueSize"
      [] option = "WithSendBufferSize" -> "SendBufferSize"
      [] option = "WithSendDeadLine" -> "SendDeadline"
      [] option = "WithSendQueueSize" -> "SendQueueSize"

\* C30: an option changes only its own setting: each of the three send
\* options sets the send setting it names and leaves the three recv
\* settings as they were, and the recv-queue-size option sets RecvQueueSize
\* and leaves RecvBufferSize as it was.
OptionOwnField ==
    [][ optionCall'.n = optionCall.n + 1
        => /\ optionCall'.op \in {"WithSendBufferSize", "WithSendDeadLine",
                                  "WithSendQueueSize"}
              => /\ config'[OwnField(optionCall'.op)] = optionCall'.value
                 /\ config'.RecvBufferSize = config.RecvBufferSize
                 /\ config'.RecvDeadline = config.RecvDeadline
                 /\ config'.RecvQueueSize = config.RecvQueueSize
           /\ optionCall'.op = "WithRecvQueueSize"
              => /\ config'.RecvQueueSize = optionCall'.value
                 /\ config'.RecvBufferSize = config.RecvBufferSize ]_vars

(***************************************************************************)
(* Admission of connections: the accept loop of the kcp server (kcp.go     *)
(* listen) or the upgrade handlers of the websocket server (part_011       *)
(* wsHandler), the sessions closing, and Close of the server.              *)
(***************************************************************************)

\* config.MaxConnNum
MaxConnNum == 1

\* the connections that arrive at one server
MaxArrivals == 3

PeerKinds == {"kcp", "ws"}

\* The goroutines that admit connections: the one accept loop of listen,
\* or the handlers net/http runs one per request, concurrently.
AcceptorsOf(kind) == IF kind = "kcp" THEN {1} ELSE 1 .. (MaxConnNum + 1)

\* What a read of a flag that another goroutine writes without any
\* synchronisation may return: the value written or the one before it.
RacyRead(flag) == IF flag THEN {TRUE, FALSE} ELSE {FALSE}

\* sessionManager.Len()
ManagerLen(ids) == Cardinality(ids)

\* the limit test of listen and wsHandler
OverLimit(ids) == MaxConnNum > 0 /\ ManagerLen(ids) >= MaxConnNum

InitAdmit ==
    /\ CodecOff
    /\ SessionOff
    /\ HandshakeOff
    /\ IdsOff
    /\ RouterOff
    /\ ConfigOff
    /\ RestOff
    /\ MessagesOff
    /\ PoolOff
    /\ ManagerOff
    /\ peerKind \in PeerKinds
    /\ isClosed = FALSE
    /\ isCloseConn = FALSE
    /\ lnClosed = FALSE
    /\ managed = {}
    /\ running = {}
    /\ sessionIDs = 0
    /\ acceptor = [a \in AcceptorsOf(peerKind) |->
                      [pc |-> "idle", late |-> FALSE]]
    /\ serverClose = "idle"
    /\ arrivals = 0

\* AcceptKCP returns a connection, or net/http calls wsHandler for a
\* request; late records that isClosed had been set by then.
ConnArrives(a) ==
    /\ acceptor[a].pc = "idle"
    /\ ~lnClosed
    /\ arrivals < MaxArrivals
    /\ arrivals' = arrivals + 1
    /\ acceptor' = [acceptor EXCEPT ![a] = [pc |-> "accepted",
                                             late |-> isClosed]]
    /\ UNCHANGED << peerKind, isClosed, isCloseConn, lnClosed, managed,
                    running, sessionIDs, serverClose >>
    /\ UNCHANGED << codecVars, sessVars, hsVars, idVars, routerVars,
                    configVars, managerVars, poolVars, messageVars, restVars >>

\* AcceptKCP fails once the listener is closed: the loop ends if it sees
\* isClosed and tries again otherwise.
AcceptFails(a, closed) ==
    /\ peerKind = "kcp"
    /\ acceptor[a].pc = "idle"
    /\ lnClosed
    /\ closed \in RacyRead(isClosed)
    /\ closed
    /\ acceptor' = [acceptor EXCEPT ![a].pc = "stopped"]
    /\ UNCHANGED << peerKind, isClosed, isCloseConn, lnClosed, managed,
                    running, sessionIDs, serverClose, arrivals >>
    /\ UNCHANGED << codecVars, sessVars, hsVars, idVars, routerVars,
                    configVars, managerVars, poolVars, messageVars, restVars >>

\* The tests of isClosed and isCloseConn: the kcp loop closes the
\* connection and ends, or closes it and accepts the next; the handler
\* returns.
CheckClosed(a, closed, closeConn) ==
    /\ acceptor[a].pc = "accepted"
    /\ closed \in RacyRead(isClosed)
    /\ closeConn \in RacyRead(isCloseConn)
    /\ acceptor' = [acceptor EXCEPT ![a].pc =
                       IF closed
                       THEN (IF peerKind = "kcp" THEN "stopped" ELSE "idle")
                       ELSE IF closeConn THEN "idle" ELSE "open"]
    /\ UNCHANGED << peerKind, isClosed, isCloseConn, lnClosed, managed,
                    running, sessionIDs, serverClose, arrivals >>
    /\ UNCHANGED << codecVars, sessVars, hsVars, idVars, routerVars,
                    configVars, managerVars, poolVars, messageVars, restVars >>

\* the test of MaxConnNum against sessionManager.Len()
CheckLimit(a) ==
    /\ acceptor[a].pc = "open"
    /\ acceptor' = [acceptor EXCEPT ![a].pc =
                       IF OverLimit(managed) THEN "idle" ELSE "admitted"]
    /\ UNCHANGED << peerKind, isClosed, isCloseConn, lnClosed, managed,
                    running, sessionIDs, serverClose, arrivals >>
    /\ UNCHANGED << codecVars, sessVars, hsVars, idVars, routerVars,
                    configVars, managerVars, poolVars, messageVars, restVars >>

\* The connection is set up (or upgraded); when that fails it is dropped,
\* otherwise newSession with a fresh id, sessionManager.Add, go Run.
Register(a, ok) ==
    /\ acceptor[a].pc = "admitted"
    /\ acceptor' = [acceptor EXCEPT ![a].pc = "idle"]
    /\ IF ok
       THEN /\ sessionIDs' = sessionIDs + 1
            /\ managed' = managed \cup {sessionIDs + 1}
            /\ running' = running \cup {sessionIDs + 1}
       ELSE UNCHANGED << sessionIDs, managed, running >>
    /\ UNCHANGED << peerKind, isClosed, isCloseConn, lnClosed, serverClose,
                    arrivals >>
    /\ UNCHANGED << codecVars, sessVars, hsVars, idVars, routerVars,
                    configVars, managerVars, poolVars, messageVars, restVars >>

\* a running session closes: its close callback is closeSession, which
\* removes it from the manager
SessionCloses(id) ==
    /\ id \in running
    /\ running' = running \ {id}
    /\ managed' = Del(managed, id).sessions
    /\ UNCHANGED << peerKind, isClosed, isCloseConn, lnClosed, sessionIDs,
                    acceptor, serverClose, arrivals >>
    /\ UNCHANGED << codecVars, sessVars, hsVars, idVars, routerVars,
                    configVars, managerVars, poolVars, messageVars, restVars >>

\* Close of the server, in its goroutine: the two flags
ServerCloseFlags ==
    /\ serverClose = "idle"
    /\ isClosed' = TRUE
    /\ isCloseConn' = TRUE
    /\ serverClose' = "flagged"
    /\ UNCHANGED << peerKind, lnClosed, managed, running, sessionIDs,
                    acceptor, arrivals >>
    /\ UNCHANGED << codecVars, sessVars, hsVars, idVars, routerVars,
                    configVars, managerVars, poolVars, messageVars, restVars >>

\* s.ln.Close() of the kcp server; the websocket server has no listener of
\* its own to close
ServerCloseListener ==
    /\ serverClose = "flagged"
    /\ peerKind = "kcp"
    /\ lnClosed' = TRUE
    /\ serverClose' = "unlistened"
    /\ UNCHANGED << peerKind, isClosed, isCloseConn, managed, running,
                    sessionIDs, acceptor, arrivals >>
    /\ UNCHANGED << codecVars, sessVars, hsVars, idVars, routerVars,
                    configVars, managerVars, poolVars, messageVars, restVars >>

\* sessionManager.Close(): every session of the manager is closed and the
\* manager is emptied; then OnServerClose and the end of Close
ServerCloseSessions ==
    /\ serverClose = IF peerKind = "kcp" THEN "unlistened" ELSE "flagged"
    /\ running' = running \ managed
    /\ managed' = {}
    /\ serverClose' = "closed"
    /\ UNCHANGED << peerKind, isClosed, isCloseConn, lnClosed, sessionIDs,
                    acceptor, arrivals >>
    /\ UNCHANGED << codecVars, sessVars, hsVars, idVars, routerVars,
                    configVars, managerVars, poolVars, messageVars, restVars >>

NextAdmit ==
    \/ \E a \in DOMAIN acceptor : ConnArrives(a)
    \/ \E a \in DOMAIN acceptor, closed \in BOOLEAN : AcceptFails(a, closed)
    \/ \E a \in DOMAIN acceptor, closed \in BOOLEAN, closeConn \in BOOLEAN :
          CheckClosed(a, closed, closeConn)
    \/ \E a \in DOMAIN acceptor : CheckLimit(a)
    \/ \E a \in DOMAIN acceptor, ok \in BOOLEAN : Register(a, ok)
    \/ \E id \in running : SessionCloses(id)
    \/ ServerCloseFlags
    \/ ServerCloseListener
    \/ ServerCloseSessions

SpecAdmit == InitAdmit /\ [][NextAdmit]_vars

\* C24: with MaxConnNum above 0 the session manager never holds more than
\* MaxConnNum sessions, whatever the order of arrivals and closes, in the
\* kcp server with its one accept loop and in the websocket server with
\* its concurrent handlers.
ConnectionLimit ==
    MaxConnNum > 0 => ManagerLen(managed) <= MaxConnNum

\* the same for the server with the single accept loop only
ConnectionLimitOneLoop ==
    peerKind = "kcp" => ConnectionLimit

\* C25: a connection that arrived after Close set isClosed never becomes a
\* session, and once Close has closed the sessions of the manager the
\* manager holds no session and no session runs.
NoAdmissionAfterClose ==
    /\ \A a \in DOMAIN acceptor :
          acceptor[a].late => acceptor[a].pc # "admitted"
    /\ serverClose = "closed" => (managed = {} /\ running = {})

(***************************************************************************)
(* Close of the session manager (session-manager.go, part_014) over        *)
(* sessions whose close callback is server.closeSession, which calls Del   *)
(* of the same manager; the sessions may also close by themselves.         *)
(***************************************************************************)

\* the sessions registered when the manager is closed
MaxSessions == 2

ManagerKinds == {"mutex", "syncmap"}

\* the goroutine that calls sessionManager.Close
Manager == 0

\* that goroutine, and one goroutine per session that may call Close of its
\* session
Closers == {Manager} \cup (1 .. MaxSessions)

InitManager ==
    /\ CodecOff
    /\ SessionOff
    /\ HandshakeOff
    /\ IdsOff
    /\ RouterOff
    /\ ConfigOff
    /\ RestOff
    /\ MessagesOff
    /\ PoolOff
    /\ AdmitOff
    /\ managerKind \in ManagerKinds
    /\ lock = {}
    /\ held = 1 .. MaxSessions
    /\ heldAtClose = {}
    /\ ranged = {}
    /\ onceTaken = {}
    /\ closedSessions = {}
    /\ closer = [g \in Closers |-> [pc |-> "idle", id |-> 0]]

\* s.lock.Lock(): a sync.RWMutex is not reentrant, the goroutine that holds
\* it waits like any other; the sync.Map version takes no lock
Lock(kind, holders) == kind = "mutex" => holders = {}

\* session.Close as far as the close callback: closeOnce, and when it was
\* taken already the call returns
SessionCloseBegin(g, id) ==
    IF id \in onceTaken
    THEN /\ UNCHANGED onceTaken
         /\ closer' = [closer EXCEPT ![g] =
                          [pc |-> IF g = Manager THEN "range" ELSE "done",
                           id |-> 0]]
    ELSE /\ onceTaken' = onceTaken \cup {id}
         /\ closer' = [closer EXCEPT ![g] = [pc |-> "callback", id |-> id]]

\* sessionManager.Close: the lock, and the start of the loop over sessions
MgrCloseBegin ==
    /\ closer[Manager].pc = "idle"
    /\ Lock(managerKind, lock)
    /\ lock' = IF managerKind = "mutex" THEN {Manager} ELSE lock
    /\ heldAtClose' = held
    /\ closer' = [closer EXCEPT ![Manager].pc = "range"]
    /\ UNCHANGED << managerKind, held, ranged, onceTaken, closedSessions >>
    /\ UNCHANGED << codecVars, sessVars, hsVars, idVars, routerVars,
                    configVars, admitVars, poolVars, messageVars, restVars >>

\* the loop reaches a session still in the manager and calls its Close
MgrCloseRange(id) ==
    /\ closer[Manager].pc = "range"
    /\ id \in held \ ranged
    /\ ranged' = ranged \cup {id}
    /\ SessionCloseBegin(Manager, id)
    /\ UNCHANGED << managerKind, lock, held, heldAtClose, closedSessions >>
    /\ UNCHANGED << codecVars, sessVars, hsVars, idVars, routerVars,
                    configVars, admitVars, poolVars, messageVars, restVars >>

\* the loop is over: the manager is emptied and the lock released
MgrCloseEnd ==
    /\ closer[Manager].pc = "range"
    /\ held \ ranged = {}
    /\ held' = {}
    /\ lock' = IF managerKind = "mutex" THEN {} ELSE lock
    /\ closer' = [closer EXCEPT ![Manager].pc = "done"]
    /\ UNCHANGED << managerKind, heldAtClose, ranged, onceTaken,
                    closedSessions >>
    /\ UNCHANGED << codecVars, sessVars, hsVars, idVars, routerVars,
                    configVars, admitVars, poolVars, messageVars, restVars >>

\* a session closes by itself: one of its loops calls Close
OwnClose(g) ==
    /\ g # Manager
    /\ closer[g].pc = "idle"
    /\ SessionCloseBegin(g, g)
    /\ UNCHANGED << managerKind, lock, held, heldAtClose, ranged,
                    closedSessions >>
    /\ UNCHANGED << codecVars, sessVars, hsVars, idVars, routerVars,
                    configVars, admitVars, poolVars, messageVars, restVars >>

\* closeCallback: closeSession calls Del, which takes the lock
DelLock(g) ==
    /\ closer[g].pc = "callback"
    /\ Lock(managerKind, lock)
    /\ lock' = IF managerKind = "mutex" THEN {g} ELSE lock
    /\ closer' = [closer EXCEPT ![g].pc = "del"]
    /\ UNCHANGED << managerKind, held, heldAtClose, ranged, onceTaken,
                    closedSessions >>
    /\ UNCHANGED << codecVars, sessVars, hsVars, idVars, routerVars,
                    configVars, admitVars, poolVars, messageVars, restVars >>

\* Del: the session is looked up, its Close is called (closeOnce is taken,
\* the call returns at once), it is deleted and the lock is released
DelBody(g) ==
    /\ closer[g].pc = "del"
    /\ held' = Del(held, closer[g].id).sessions
    /\ lock' = IF managerKind = "mutex" THEN {} ELSE lock
    /\ closer' = [closer EXCEPT ![g].pc = "finish"]
    /\ UNCHANGED << managerKind, heldAtClose, ranged, onceTaken,
                    closedSessions >>
    /\ UNCHANGED << codecVars, sessVars, hsVars, idVars, routerVars,
                    configVars, admitVars, poolVars, messageVars, restVars >>

\* the rest of session.Close, and the return to the caller
SessionCloseFinish(g) ==
    /\ closer[g].pc = "finish"
    /\ closedSessions' = closedSessions \cup {closer[g].id}
    /\ closer' = [closer EXCEPT ![g] =
                     [pc |-> IF g = Manager THEN "range" ELSE "done",
                      id |-> 0]]
    /\ UNCHANGED << managerKind, lock, held, heldAtClose, ranged,
                    onceTaken >>
    /\ UNCHANGED << codecVars, sessVars, hsVars, idVars, routerVars,
                    configVars, admitVars, poolVars, messageVars, restVars >>

NextManager ==
    \/ MgrCloseBegin
    \/ \E id \in held : MgrCloseRange(id)
    \/ MgrCloseEnd
    \/ \E g \in Closers : OwnClose(g)
    \/ \E g \in Closers : DelLock(g)
    \/ \E g \in Closers : DelBody(g)
    \/ \E g \in Closers : SessionCloseFinish(g)

SpecManager == InitManager /\ [][NextManager]_vars

\* a goroutine stands at the Lock of Del while it holds the lock itself
SelfDeadlock(g) == closer[g].pc = "callback" /\ g \in lock

\* C26: Close of the manager calls Close on every session that was
\* registered when it was called and then returns with the manager empty,
\* also when the close callback of each session calls Del of the manager
\* while Close is going over the sessions: Close never waits for itself,
\* and when it has returned every such session had its Close called and
\* the manager holds no session.
CloseAll ==
    /\ ~SelfDeadlock(Manager)
    /\ closer[Manager].pc = "done"
       => (held = {} /\ heldAtClose \subseteq onceTaken)

(***************************************************************************)
(* The registry after a session has closed (part_014 Get, Send).           *)
(***************************************************************************)

\* sessionManager.Get: the session, or ErrSessionNotFound
ManagerGet(ids, id) ==
    IF id \in ids THEN [session |-> id, err |-> "nil"]
    ELSE [session |-> 0, err |-> "ErrSessionNotFound"]

\* sessionManager.Send: the error of Get, else what session.Send returns
ManagerSend(ids, id, sendResult) ==
    IF ManagerGet(ids, id).err # "nil" THEN ManagerGet(ids, id).err
    ELSE sendResult

\* C27: when the session of a server has closed, for whatever reason, its
\* id is no longer in the session manager: once Close has closed the conn,
\* Get of the id fails with ErrSessionNotFound, Len does not count the id
\* and Send to the id fails.
ClosedLeavesRegistry ==
    fired.connClose > 0
    => /\ ManagerGet(sessions, SessionID).err = "ErrSessionNotFound"
       /\ ManagerLen(sessions) = ManagerLen(sessions \ {SessionID})
       /\ ManagerSend(sessions, SessionID, "nil") = "ErrSessionNotFound"

\* a session closed by one of its own loops, the server not being closed
ClosedLeavesRegistryWitness ==
    /\ fired.connClose > 0
    /\ ~serverOnce
    /\ SessionID \notin sessions

(***************************************************************************)
(* session.write of the sessions of one server: Pack of the shared codec,  *)
(* whose buffers come from the one bufferPool, then conn.Write of the      *)
(* slice Pack returned.                                                    *)
(***************************************************************************)

\* the sessions that write
Writers == {1, 2}

\* the writes begun by all sessions together
MaxWrites == 3

\* the message a session writes
WriteMessage(w, n) == NewLTDMessage(0, 32 + w, 0, 1, 2, PayloadOf(n))

\* buffer.Reset() and the writes of new into a buffer whose array holds
\* old: the array is kept, new lies over its first bytes
Overwrite(old, new) ==
    IF Len(new) >= Len(old) THEN new
    ELSE new \o SubSeq(old, Len(new) + 1, Len(old))

\* the bytes a slice of length n over the array of a buffer shows
SliceOf(array, n) == SubSeq(array, 1, n)

\* the bytes of the array of a buffer, none for a buffer not made yet
ArrayOf(arrays, b) == IF b \in DOMAIN arrays THEN arrays[b] ELSE << >>

\* arrays with the array of buffer b holding bytes
Store(arrays, b, bytes) ==
    [c \in (DOMAIN arrays) \cup {b} |-> IF c = b THEN bytes ELSE arrays[c]]

InitPool ==
    /\ CodecOff
    /\ SessionOff
    /\ HandshakeOff
    /\ IdsOff
    /\ RouterOff
    /\ ConfigOff
    /\ RestOff
    /\ MessagesOff
    /\ AdmitOff
    /\ ManagerOff
    /\ sharedPool = {}
    /\ bufferBytes = << >>
    /\ writer = [w \in Writers |-> [pc |-> "idle", frame |-> << >>, ref |-> 0]]
    /\ wrote = [w \in Writers |-> << >>]
    /\ writes = 0

\* write: Pack.  packBody takes buffer b1 from the pool, stages the body in
\* it and puts it back; Pack takes b2, builds the frame in it, puts it back
\* on return and returns buffer.Bytes(), a slice of the array of b2.
WritePack(w, n, b1, b2) ==
    /\ writer[w].pc = "idle"
    /\ writes < MaxWrites
    /\ b1 \in GetChoices(sharedPool)
    /\ b2 \in GetChoices(sharedPool \cup {b1})
    /\ LET message == WriteMessage(w, n)
           staged == packBody(SessionLtd, message, NoCrypto).body
           frame == Pack(SessionLtd, message, NoCrypto, << >>, b1 = b2).bytes
           body == Store(bufferBytes, b1,
                         Overwrite(ArrayOf(bufferBytes, b1), staged))
       IN  /\ bufferBytes' = Store(body, b2,
                                   Overwrite(ArrayOf(body, b2), frame))
           /\ writer' = [writer EXCEPT ![w] =
                            [pc |-> "packed", frame |-> frame, ref |-> b2]]
    /\ sharedPool' = sharedPool \cup {b1, b2}
    /\ writes' = writes + 1
    /\ UNCHANGED wrote
    /\ UNCHANGED << codecVars, sessVars, hsVars, idVars, routerVars,
                    configVars, admitVars, managerVars, messageVars,
                    restVars >>

\* write: conn.Write(p) sends what the slice shows when it is written
ConnWrite(w) ==
    /\ writer[w].pc = "packed"
    /\ wrote' = [wrote EXCEPT ![w] =
                    Append(@, [frame |-> writer[w].frame,
                               bytes |-> SliceOf(bufferBytes[writer[w].ref],
                                                 Len(writer[w].frame))])]
    /\ writer' = [writer EXCEPT ![w] =
                     [pc |-> "idle", frame |-> << >>, ref |-> 0]]
    /\ UNCHANGED << sharedPool, bufferBytes, writes >>
    /\ UNCHANGED << codecVars, sessVars, hsVars, idVars, routerVars,
                    configVars, admitVars, managerVars, messageVars,
                    restVars >>

NextPool ==
    \/ \E w \in Writers, n \in 0 .. MaxPayload, b1 \in 1 .. MaxBuf,
          b2 \in 1 .. MaxBuf : WritePack(w, n, b1, b2)
    \/ \E w \in Writers : ConnWrite(w)

SpecPool == InitPool /\ [][NextPool]_vars

\* C28: what a session writes to its conn for a message is the frame Pack
\* produced for that message, whatever other sessions pack meanwhile or
\* afterwards: the slice Pack returned keeps its bytes until the write is
\* done, and the bytes written are those bytes.
PoolIsolation ==
    \A w \in Writers :
       /\ writer[w].pc = "packed"
          => SliceOf(bufferBytes[writer[w].ref], Len(writer[w].frame))
                 = writer[w].frame
       /\ \A i \in 1 .. Len(wrote[w]) : wrote[w][i].bytes = wrote[w][i].frame

(***************************************************************************)
(* Messages made by NewLTDMessage from the messagePool, stamped with the   *)
(* id of the session that received them, and released to the pool.        *)
(***************************************************************************)

\* the message objects the pool makes
MaxObjects == 2

\* the calls made on messages
MaxMessageCalls == 4

\* messagePool.New: a message with zero head and body and no session
NewObject ==
    [len |-> 0, flag |-> 0, sn |-> 0, checksum |-> emptyChecksum, code |-> 0,
     module |-> 0, action |-> 0, payload |-> << >>, sessionID |-> 0]

\* messagePool.Get: an idle object, or one made by New
GetMessage(pool) ==
    pool \cup (IF \E o \in 1 .. MaxObjects : o \notin DOMAIN messageObjects
               THEN { CHOOSE o \in 1 .. MaxObjects :
                         /\ o \notin DOMAIN messageObjects
                         /\ \A c \in 1 .. MaxObjects :
                               c \notin DOMAIN messageObjects => o <= c }
               ELSE { })

\* NewLTDMessage on the object m it got from the pool: the head and body
\* fields it assigns
NewLTDMessageOn(m, flag, sn, code, module, action, payload) ==
    [m EXCEPT !.len = (4 + Len(payload)) % 65536, !.flag = flag, !.sn = sn,
              !.code = code, !.module = module, !.action = action,
              !.payload = payload]

InitMessages ==
    /\ CodecOff
    /\ SessionOff
    /\ HandshakeOff
    /\ IdsOff
    /\ LateOff

CallNewLTDMessage(o, sn, n) ==
    /\ messageCall.n < MaxMessageCalls
    /\ o \in GetMessage(messagePool)
    /\ messagePool' = messagePool \ {o}
    /\ messageObjects' =
          [c \in (DOMAIN messageObjects) \cup {o} |->
              IF c = o
              THEN NewLTDMessageOn(IF o \in DOMAIN messageObjects
                                   THEN messageObjects[o] ELSE NewObject,
                                   0, sn, 0, 1, 2, PayloadOf(n))
              ELSE messageObjects[c]]
    /\ messageCall' = [n |-> messageCall.n + 1, op |-> "NewLTDMessage",
                       object |-> o, reused |-> o \in messagePool]
    /\ UNCHANGED << codecVars, sessVars, hsVars, idVars, routerVars,
                    configVars, admitVars, managerVars, poolVars, restVars >>

\* recvLoop stamps a message it unpacked with the id of its session
CallSetSessionID(o, sessionID) ==
    /\ messageCall.n < MaxMessageCalls
    /\ o \in (DOMAIN messageObjects) \ messagePool
    /\ messageObjects' = [messageObjects EXCEPT ![o].sessionID = sessionID]
    /\ messageCall' = [n |-> messageCall.n + 1, op |-> "SetSessionID",
                       object |-> o, reused |-> FALSE]
    /\ UNCHANGED messagePool
    /\ UNCHANGED << codecVars, sessVars, hsVars, idVars, routerVars,
                    configVars, admitVars, managerVars, poolVars, restVars >>

\* Release: messagePool.Put(m)
CallRelease(o) ==
    /\ messageCall.n < MaxMessageCalls
    /\ o \in (DOMAIN messageObjects) \ messagePool
    /\ messagePool' = messagePool \cup {o}
    /\ messageCall' = [n |-> messageCall.n + 1, op |-> "Release",
                       object |-> o, reused |-> FALSE]
    /\ UNCHANGED messageObjects
    /\ UNCHANGED << codecVars, sessVars, hsVars, idVars, routerVars,
                    configVars, admitVars, managerVars, poolVars, restVars >>

NextMessages ==
    \/ \E o \in 1 .. MaxObjects, sn \in 1 .. MaxMsgs, n \in 0 .. MaxPayload :
          CallNewLTDMessage(o, sn, n)
    \/ \E o \in 1 .. MaxObjects, sessionID \in 1 .. MaxSessions :
          CallSetSessionID(o, sessionID)
    \/ \E o \in 1 .. MaxObjects : CallRelease(o)

SpecMessages == InitMessages /\ [][NextMessages]_vars

\* C29: a message returned by NewLTDMessage has session id 0 and the zero
\* checksum, whatever messages were stamped with a session id and released
\* to the pool before.
FreshMessageNoSession ==
    messageCall.op = "NewLTDMessage"
    => /\ messageObjects[messageCall.object].sessionID = 0
       /\ messageObjects[messageCall.object].checksum = emptyChecksum

\* ---------------------------------------------------------------------
\* The order of the steps of session.Close (session.go 150-180)

\* the step runs closeCallback and OnConnClose
CallbacksRun ==
    \/ fired'.closeCallback > fired.closeCallback
    \/ fired'.onConnClose > fired.onConnClose

\* both callbacks have run
CallbacksDone == fired.closeCallback > 0 /\ fired.onConnClose > 0

\* C31: in the effective run of Close the two stop flags are set when the
\* callbacks run and the transport is then still open; Close passes its wait
\* only after the callbacks and with no pack and write in flight; it sends
\* the close signal after the wait and before the transport is closed; the
\* transport is closed by a Close whose signal was received; the channels are
\* closed only once the transport is closed.
CloseSequence ==
    [][ /\ CallbacksRun =>
             (isStopRecv' /\ isStopSend' /\ fired'.connClose = 0 /\ ~ chClosed')
        /\ \A p \in Procs :
             (pc[p] = "c_wait" /\ pc'[p] = "c_signal") =>
                (sendWait = 0 /\ CallbacksDone /\ fired.connClose = 0)
        /\ \A p \in Procs :
             (pc[p] = "c_signal" /\ pc'[p] = "c_finish") =>
                (CallbacksDone /\ fired.connClose = 0 /\ ~ chClosed)
        /\ (fired'.connClose > fired.connClose) =>
             (\E p \in Procs : pc[p] = "c_finish" /\ pc'[p] # "c_finish")
        /\ (chClosed' /\ ~ chClosed) => (fired'.connClose > 0)
        /\ \A p \in Procs :
             (pc[p] # "c_wait" /\ pc'[p] = "c_wait") => CallbacksRun
      ]_vars

\* a Close has run to its end: callbacks, wait, signal, transport, channels
CloseSequenceWitness ==
    /\ CallbacksDone
    /\ fired.connClose > 0
    /\ fired.chanClose > 0
    /\ chClosed

\* ---------------------------------------------------------------------
\* The length of the head (part_003 43-76, 217-220)

\* the bytes of a frame that its len field does not count
Uncounted(frame) == Len(frame) - ToUint16(SubSeq(frame, 1, 2))

MaxPayloadLen == 65535

PayloadLengths == 0 .. MaxPayloadLen

\* packBody: the body is code, module, action and the payload
BodyLength(p) == 2 + 1 + 1 + p

\* Pack without compression and encryption: the len field it writes and
\* the number of bytes of the frame
PackLengths(l, p) ==
    [len |-> Uint16Of(BodyLength(p)), emitted |-> l.headLen + BodyLength(p)]

\* Unpack: the bytes the first turn of its loop reads off a ring that holds
\* the frame
UnpackConsumes(l, bodyLen) == l.headLen + bodyLen

InitLength ==
    /\ SessionOff
    /\ CodecOff
    /\ HandshakeOff
    /\ IdsOff
    /\ ServerOff
    /\ KeysOff
    /\ OwnerOff
    /\ frameCodec = 0
    /\ frameCrypto = 0
    /\ frameMessage = 0
    /\ frameOut = NoFrame
    /\ lengthCall = NoFrame

\* a message with a payload of p bytes is packed by a codec with or without
\* checksums, and the frame is unpacked
CallPackLength(whetherChecksum, p) ==
    /\ lengthCall = NoFrame
    /\ LET l == NewLTD(FALSE, 0, FALSE, FALSE, whetherChecksum)
           r == PackLengths(l, p)
       IN  lengthCall' = [n |-> 1, p |-> p, len |-> r.len, emitted |-> r.emitted,
                          consumed |-> UnpackConsumes(l, r.len)]
    /\ UNCHANGED << frameCodec, frameCrypto, frameMessage, frameOut >>
    /\ UNCHANGED << codecVars, sessVars, hsVars, idVars, serverVars, keyVars,
                    ownerVars >>

NextLength ==
    /\ lengthCall = NoFrame
    /\ \E whetherChecksum \in BOOLEAN : \E p \in PayloadLengths :
          CallPackLength(whetherChecksum, p)

SpecLength == InitLength /\ [][NextLength]_vars

\* C33: for every payload length from 0 to 65535 the len field is 4 plus
\* the payload length, and Unpack consumes the whole frame, head and len
\* bytes; an empty payload gives len 4.
LengthField ==
    lengthCall.n = 1 =>
        /\ lengthCall.len = 4 + lengthCall.p
        /\ lengthCall.consumed = lengthCall.emitted

(***************************************************************************)
(* One frame: Pack of one message and Unpack of its frame                  *)
(* (part_003 223-332, 338-448)                                             *)
(***************************************************************************)
\* the longest payload packed: "hi"
MaxFramePayload == 2

\* the codecs: compression enabled or not, a compressor configured or not,
\* bodies of 5 bytes and more compressed, encryption and checksums on or off
FrameCodecs ==
    { NewLTD(c, 5, z, e, k) :
        c \in BOOLEAN, z \in BOOLEAN, e \in BOOLEAN, k \in BOOLEAN }

\* the messages, as the callers of NewLTDMessage build them: a data message
\* (flag 0) or a control message (FlagZero), sn 1, module 1, action 2
FrameMessages ==
    { NewLTDMessage(flag, 1, 0, 1, 2, PayloadOf(n)) :
        flag \in {0, FlagZero}, n \in 0 .. MaxFramePayload }

\* the checksumKey of a session with that Crypto
FrameKey(crypto) == IF crypto.present THEN crypto.key ELSE << >>

InitFrame ==
    /\ SessionOff
    /\ CodecOff
    /\ HandshakeOff
    /\ IdsOff
    /\ ServerOff
    /\ KeysOff
    /\ OwnerOff
    /\ frameCodec \in FrameCodecs
    /\ frameCrypto \in {NoCrypto, NewCrypto(SessionKey)}
    /\ frameMessage \in FrameMessages
    /\ frameOut = NoFrame
    /\ lengthCall = NoFrame

\* Pack(message, crypto, checksumKey); bufferPool.Get hands Pack the buffer
\* packBody has just Put, or another one
FramePack(sameBuffer) ==
    /\ frameOut.n = 0
    /\ LET r == Pack(frameCodec, frameMessage, frameCrypto, FrameKey(frameCrypto),
                     sameBuffer)
       IN  frameOut' = [n |-> 1, bytes |-> r.bytes, sameBuffer |-> sameBuffer]
    /\ UNCHANGED << frameCodec, frameCrypto, frameMessage, lengthCall >>
    /\ UNCHANGED << codecVars, sessVars, hsVars, idVars, serverVars, keyVars,
                    ownerVars >>

\* the peer, which holds the same Crypto and key, writes the frame into an
\* empty ring and calls Unpack
FrameUnpack ==
    /\ frameOut.n = 1
    /\ LET r == Unpack(frameCodec, frameOut.bytes, frameCrypto, FrameKey(frameCrypto))
       IN  frameOut' = [n |-> 2, bytes |-> frameOut.bytes,
                        sameBuffer |-> frameOut.sameBuffer,
                        messages |-> r.messages, err |-> r.err]
    /\ UNCHANGED << frameCodec, frameCrypto, frameMessage, lengthCall >>
    /\ UNCHANGED << codecVars, sessVars, hsVars, idVars, serverVars, keyVars,
                    ownerVars >>

NextFrame ==
    \/ \E sameBuffer \in BOOLEAN : FramePack(sameBuffer)
    \/ FrameUnpack

SpecFrame == InitFrame /\ [][NextFrame]_vars

\* the message {flag 0, sn 1, code 0, module 1, action 2, payload "hi"}
BareMessage == NewLTDMessage(0, 1, 0, 1, 2, << 104, 105 >>)

\* that message has been packed with compression, encryption and checksums
\* disabled
BarePacked ==
    /\ frameOut.n >= 1
    /\ frameMessage = BareMessage
    /\ ~ frameCodec.whetherCompress
    /\ ~ frameCodec.whetherCrypto
    /\ ~ frameCodec.whetherChecksum

RawBody(message) ==
    U16(message.code) \o << message.module, message.action >> \o message.payload

\* the conditions under which packBody compresses and encrypts
Compresses ==
    /\ frameCodec.whetherCompress
    /\ frameCodec.compress
    /\ Len(RawBody(frameMessage)) >= frameCodec.compressThreshold

Encrypts ==
    /\ frameCodec.whetherCrypto
    /\ frameCrypto.present
    /\ ~ HasFlag(frameMessage.flag, FlagZero)

\* the bytes of the frame behind the head
FrameBody ==
    SubSeq(frameOut.bytes, frameCodec.headLen + 1, Len(frameOut.bytes))

Senders == {"recv", "dispatch", "user"}

\* the step is a send on a queue that Close has closed: the goroutine stands
\* at its send, the channels are closed, and it leaves the send
SendOnClosed ==
    /\ chClosed
    /\ \E p \in Senders : pc[p] = "enqueue" /\ pc'[p] # "enqueue"

\* C36: under every interleaving of Close with Send, SendCallback and the
\* receive task no send is made on sendQueue or recvQueue after Close has
\* closed it, and no call of Send panics.
NoUseOfClosedQueue ==
    [][ ~ SendOnClosed /\ pc'["user"] # "panicked" ]_vars

\* ---------------------------------------------------------------------
\* The ring of recvLoop (session.go 266-325, part_003 338-365)

\* zeroringbytes.New(recvBufferSize * 2)
RingCapacity == 2 * RecvBufferSize

\* every frame the peer sends fits the read buffer
FramesBounded ==
    \A k \in 1..Len(peerFrames) : Len(peerFrames[k]) <= RecvBufferSize

\* C37: when every frame on the wire has at most recv_buffer_size bytes,
\* the ring holds less than one frame after each Unpack, and the bytes
\* buffered plus a chunk of up to recv_buffer_size bytes never exceed the
\* capacity of the ring, so that WriteN does not fail.
RingNeverOverflows ==
    FramesBounded =>
        /\ Len(ringBuf) < RecvBufferSize
        /\ \A n \in 1..RecvBufferSize : Len(ringBuf) + n <= RingCapacity

\* more bytes than the ring can hold have gone through it, and it holds the
\* first bytes of a frame whose rest is still on the wire
RingNeverOverflowsWitness ==
    /\ FramesBounded
    /\ Len(Flatten(peerFrames)) - Len(wire) > RingCapacity
    /\ Len(ringBuf) > 0
    /\ Len(wire) > 0

(***************************************************************************)
(* Delivery of the frames that have arrived (session.go 280-336)           *)
(***************************************************************************)
\* the first frames of a peer that sends data frames only
DeliveryStreams ==
    { [k \in 1..count |-> InboundFrame("data", k)] : count \in 1..MaxInbound }

\* a running session whose peer has sent up to MaxInbound data frames, all
\* of which have arrived on the transport
InitDelivery ==
    /\ ltdCfg = SessionLtd
    /\ bufferPool = { }
    /\ txCrypto = NoCrypto
    /\ rxCrypto = NoCrypto
    /\ hmacKey = << >>
    /\ peerFrames \in DeliveryStreams
    /\ wire = Flatten(peerFrames)
    /\ ringBuf = << >>
    /\ packed = << >>
    /\ unpacked = << >>
    /\ unpackErr = ""
    /\ tamper = [at |-> 0, bit |-> 0]
    /\ pc = [p \in Procs |-> IF p = "recv" THEN "read"
                             ELSE IF p \in Selectors THEN "select" ELSE "off"]
    /\ recvBatch = << >>
    /\ recvQueue = << >>
    /\ sendQueue = << >>
    /\ chClosed = FALSE
    /\ isStopRecv = FALSE
    /\ isStopSend = FALSE
    /\ closeOnce = FALSE
    /\ sendWait = 0
    /\ sessions = { SessionID }
    /\ serverOnce = FALSE
    /\ fired = NothingFired
    /\ closePanics = 0
    /\ handled = << >>
    /\ sendLog = << >>
    /\ written = << >>
    /\ acceptedAtClose = 0
    /\ writeFailed = FALSE
    /\ dispCur = NoMessage
    /\ sendCur = NoMessage
    /\ userSends = 0
    /\ appCalls = 0
    /\ inServerClose = FALSE
    /\ HandshakeOff
    /\ IdsOff
    /\ LateOff

\* recvLoop and dispatchLoop at work; the handler returns no response and no
\* error, nobody closes the session and no read fails
NextDelivery ==
    \/ \E n \in 1..RecvBufferSize : RecvRead(n)
    \/ RecvEnqueue
    \/ DispatchRecv("none")

\* the goroutines of the session are scheduled again and again
SpecDelivery ==
    /\ InitDelivery
    /\ [][NextDelivery]_vars
    /\ WF_vars(\E n \in 1..RecvBufferSize : RecvRead(n))
    /\ WF_vars(RecvEnqueue)
    /\ WF_vars(DispatchRecv("none"))

\* the message of the k-th frame has been put on recvQueue
Enqueued(k) ==
    \/ \E i \in 1..Len(recvQueue) : recvQueue[i].sn = k
    \/ \E i \in 1..Len(handled) : handled[i].sn = k

\* C38: every frame whose bytes have all arrived has its message put on
\* recvQueue in the end, in whatever chunks the reads return its bytes and
\* with no further bytes arriving.
ChunkingDelivery ==
    \A k \in 1..MaxInbound :
        (k <= Len(peerFrames)) ~> Enqueued(k)

(***************************************************************************)
(* The keys of the sessions of one server: handleExchangeKeyRequest,       *)
(* ExchangeKeyResponse and BuildKey, whose buffers come from the one       *)
(* bufferPool of package ecdh (ecdh.go 45-64, session.go 473-489, 229-232) *)
(***************************************************************************)
\* the sessions that exchange keys
KeySessions == {1, 2}

\* the key exchanges handled by all sessions together
MaxKeyExchanges == 3

\* the shared keys and the nonces of the exchanges
SharedKeys == { << 1 >>, << 2 >> }
ServerNonces == { << 3 >>, << 4 >> }
ClientNonces == { << 5 >> }

NoKey == [ref |-> 0, len |-> 0, derived |-> << >>]

InitKeys ==
    /\ SessionOff
    /\ CodecOff
    /\ HandshakeOff
    /\ IdsOff
    /\ ServerOff
    /\ FrameOff
    /\ OwnerOff
    /\ keyPool = {}
    /\ keyBytes = << >>
    /\ checksumKeys = [s \in KeySessions |-> NoKey]
    /\ keyExchanges = 0

\* handleExchangeKeyRequest of session s: ExchangeKeyResponse calls BuildKey,
\* which takes buffer b from the pool, resets it, writes the shared key and
\* the two nonces into it, puts it back on return and returns buffer.Bytes(),
\* a slice of the array of b; SetChecksumKey stores that slice.
SessionExchangeKey(s, b, sharedKey, rs, rc) ==
    /\ keyExchanges < MaxKeyExchanges
    /\ b \in GetChoices(keyPool)
    /\ LET key == BuildKey(sharedKey, rs, rc)
       IN  /\ keyBytes' = Store(keyBytes, b, Overwrite(ArrayOf(keyBytes, b), key))
           /\ checksumKeys' = [checksumKeys EXCEPT ![s] =
                                 [ref |-> b, len |-> Len(key), derived |-> key]]
    /\ keyPool' = keyPool \cup {b}
    /\ keyExchanges' = keyExchanges + 1
    /\ UNCHANGED << codecVars, sessVars, hsVars, idVars, serverVars, frameVars,
                    ownerVars >>

NextKeys ==
    \E s \in KeySessions, b \in 1 .. MaxBuf, sharedKey \in SharedKeys,
       rs \in ServerNonces, rc \in ClientNonces :
          SessionExchangeKey(s, b, sharedKey, rs, rc)

SpecKeys == InitKeys /\ [][NextKeys]_vars

\* the bytes the checksumKey of session s shows
ChecksumKeyOf(s) ==
    SliceOf(ArrayOf(keyBytes, checksumKeys[s].ref), checksumKeys[s].len)

\* C39: the HMAC key stored for a session is at all times the S || Rs || Rc
\* that was derived for it, whatever key exchanges the same or other
\* sessions handle later.
SessionKeysIndependent ==
    \A s \in KeySessions :
        checksumKeys[s].ref # 0 => ChecksumKeyOf(s) = checksumKeys[s].derived

(***************************************************************************)
(* The message objects of one server: made by NewLTDMessage from the       *)
(* messagePool, queued by recvLoop, Send and SendAll, and released by the  *)
(* calls that dispatchLoop and sendLoop defer (session.go 349-354,         *)
(* 397-402, part_003 90-104, 158-160, part_014 100-107)                    *)
(***************************************************************************)
\* the sessions of the server
OwnerSessions == {1, 2}

\* the loops of a session that release messages
OwnerLoops == {"dispatch", "send"}

\* the message objects the pool makes
MaxOwned == 2

\* the calls of NewLTDMessage
MaxMessagesMade == 3

\* messagePool.Get: an object that lies in the pool, or one made by New
GetOwned ==
    { o \in 1 .. MaxOwned : poolCount[o] > 0 }
    \cup (IF \E o \in 1 .. MaxOwned : o \notin made
          THEN { CHOOSE o \in 1 .. MaxOwned :
                    /\ o \notin made
                    /\ \A c \in 1 .. MaxOwned : c \notin made => o <= c }
          ELSE { })

\* the pool after Get has returned o
Taken(o) == [poolCount EXCEPT ![o] = IF @ > 0 THEN @ - 1 ELSE 0]

\* how often o occurs in q
Occurrences(q, o) == Cardinality({ i \in 1 .. Len(q) : q[i] = o })

InitOwnership ==
    /\ SessionOff
    /\ CodecOff
    /\ HandshakeOff
    /\ IdsOff
    /\ ServerOff
    /\ FrameOff
    /\ KeysOff
    /\ poolCount = [o \in 1 .. MaxOwned |-> 0]
    /\ made = {}
    /\ recvQueueOf = [s \in OwnerSessions |-> << >>]
    /\ sendQueueOf = [s \in OwnerSessions |-> << >>]
    /\ deferred = [s \in OwnerSessions |-> [l \in OwnerLoops |-> << >>]]
    /\ loopRuns = [s \in OwnerSessions |-> [l \in OwnerLoops |-> TRUE]]
    /\ messagesMade = 0

\* recvLoop of session s: Unpack makes a message with NewLTDMessage, and
\* the loop puts it on recvQueue
RecvMessage(s, o) ==
    /\ messagesMade < MaxMessagesMade
    /\ loopRuns[s]["dispatch"]
    /\ o \in GetOwned
    /\ poolCount' = Taken(o)
    /\ made' = made \cup {o}
    /\ recvQueueOf' = [recvQueueOf EXCEPT ![s] = Append(@, o)]
    /\ messagesMade' = messagesMade + 1
    /\ UNCHANGED << sendQueueOf, deferred, loopRuns >>
    /\ UNCHANGED << codecVars, sessVars, hsVars, idVars, serverVars, frameVars,
                    keyVars >>

\* dispatchLoop of session s takes a message from recvQueue and defers its
\* Release; the handler returns nil, or the message itself as the response,
\* which Send puts on sendQueue
DispatchMessage(s, echo) ==
    /\ loopRuns[s]["dispatch"]
    /\ recvQueueOf[s] # << >>
    /\ LET message == Head(recvQueueOf[s])
       IN  /\ deferred' = [deferred EXCEPT ![s]["dispatch"] = Append(@, message)]
           /\ sendQueueOf' = IF echo /\ loopRuns[s]["send"]
                             THEN [sendQueueOf EXCEPT ![s] = Append(@, message)]
                             ELSE sendQueueOf
    /\ recvQueueOf' = [recvQueueOf EXCEPT ![s] = Tail(@)]
    /\ UNCHANGED << poolCount, made, loopRuns, messagesMade >>
    /\ UNCHANGED << codecVars, sessVars, hsVars, idVars, serverVars, frameVars,
                    keyVars >>

\* user code makes a message with NewLTDMessage and calls SendAll, which
\* calls Send(message) on every session
AppSendAll(o) ==
    /\ messagesMade < MaxMessagesMade
    /\ o \in GetOwned
    /\ poolCount' = Taken(o)
    /\ made' = made \cup {o}
    /\ sendQueueOf' = [s \in OwnerSessions |->
                         IF loopRuns[s]["send"] THEN Append(sendQueueOf[s], o)
                         ELSE sendQueueOf[s]]
    /\ messagesMade' = messagesMade + 1
    /\ UNCHANGED << recvQueueOf, deferred, loopRuns >>
    /\ UNCHANGED << codecVars, sessVars, hsVars, idVars, serverVars, frameVars,
                    keyVars >>

\* sendLoop of session s takes an element from sendQueue, defers the Release
\* of its message and writes it
SendMessage(s) ==
    /\ loopRuns[s]["send"]
    /\ sendQueueOf[s] # << >>
    /\ deferred' = [deferred EXCEPT ![s]["send"] = Append(@, Head(sendQueueOf[s]))]
    /\ sendQueueOf' = [sendQueueOf EXCEPT ![s] = Tail(@)]
    /\ UNCHANGED << poolCount, made, recvQueueOf, loopRuns, messagesMade >>
    /\ UNCHANGED << codecVars, sessVars, hsVars, idVars, serverVars, frameVars,
                    keyVars >>

\* loop l of session s returns: the Release calls it has deferred run, each
\* a messagePool.Put
LoopReturn(s, l) ==
    /\ loopRuns[s][l]
    /\ loopRuns' = [loopRuns EXCEPT ![s][l] = FALSE]
    /\ poolCount' = [o \in 1 .. MaxOwned |->
                        poolCount[o] + Occurrences(deferred[s][l], o)]
    /\ deferred' = [deferred EXCEPT ![s][l] = << >>]
    /\ UNCHANGED << made, recvQueueOf, sendQueueOf, messagesMade >>
    /\ UNCHANGED << codecVars, sessVars, hsVars, idVars, serverVars, frameVars,
                    keyVars >>

NextOwnership ==
    \/ \E s \in OwnerSessions, o \in 1 .. MaxOwned : RecvMessage(s, o)
    \/ \E s \in OwnerSessions, echo \in BOOLEAN : DispatchMessage(s, echo)
    \/ \E o \in 1 .. MaxOwned : AppSendAll(o)
    \/ \E s \in OwnerSessions : SendMessage(s)
    \/ \E s \in OwnerSessions, l \in OwnerLoops : LoopReturn(s, l)

SpecOwnership == InitOwnership /\ [][NextOwnership]_vars

\* message object o is still to be used: it waits in a queue of a running
\* loop, or a Release of it is still deferred
InUse(o) ==
    \E s \in OwnerSessions :
        \/ loopRuns[s]["dispatch"] /\ Occurrences(recvQueueOf[s], o) > 0
        \/ loopRuns[s]["send"] /\ Occurrences(sendQueueOf[s], o) > 0
        \/ \E l \in OwnerLoops : Occurrences(deferred[s][l], o) > 0

\* C40: a message object is released to the pool at most once, so that it
\* never lies in the pool twice, and only after its last use, so that no
\* object in the pool is still queued or due for another Release: the pool
\* never hands one object to two holders.
MessageOwnership ==
    \A o \in 1 .. MaxOwned :
        /\ poolCount[o] <= 1
        /\ poolCount[o] > 0 => ~ InUse(o)

====
